---- MODULE Spec2Model ----
(***************************************************************************)
(* Model of the category-to-account resolution engine of the Wave          *)
(* accounting MCP server (src/mcp_server.py): WaveClient's synonym tables,  *)
(* WaveClient.find_best_account_match, and the two workflows of             *)
(* handle_call_tool that forward its verdict to the backend.                *)
(*                                                                         *)
(* Python strings are TLA+ strings (TLC evaluates Len, SubSeq and \o on    *)
(* them).  Floats are exact rationals [num, den]: every score the engine   *)
(* produces is either a literal or 2.0*M/T for small integers M, T, and    *)
(* IEEE division is correctly rounded, so comparing the rationals gives    *)
(* the comparison the floats give.                                         *)
(***************************************************************************)
EXTENDS Integers, Sequences, FiniteSets, TLC

VARIABLES
    EXPENSE_SYNONYMS,   \* WaveClient.EXPENSE_SYNONYMS (class attribute, a dict)
    INCOME_SYNONYMS,    \* WaveClient.INCOME_SYNONYMS  (class attribute, a dict)
    hashSeed,           \* the process's string-hash seed (fixes set iteration order)
    user_category,      \* argument of the current engine call
    user_context,       \* argument of the current engine call (None or a string)
    account_type,       \* argument of the current engine call
    accounts,           \* argument of the current engine call (list of nodes)
    result,             \* the tuple returned by the current engine call
    prev_result,        \* the tuple an earlier call with the same arguments returned
    pc,                 \* position of the engine caller
    business_id,        \* wave_client.business_id
    tool,               \* the tool invocation being handled (name and arguments)
    wpc,                \* position of handle_call_tool in that invocation
    requests,           \* backend requests issued so far, in order
    page,               \* get_accounts: the page to request next
    all_accounts,       \* get_accounts: the edges collected so far
    page_info,          \* get_accounts: current_page and total_pages last read
    gpc                 \* position of get_accounts

\* the locals of WaveClient.get_accounts and its position
pagingVars == <<page, all_accounts, page_info, gpc>>

vars == <<EXPENSE_SYNONYMS, INCOME_SYNONYMS, hashSeed, user_category,
          user_context, account_type, accounts, result, prev_result, pc,
          business_id, tool, wpc, requests, pagingVars>>

(***************************************************************************)
(* Python values                                                           *)
(***************************************************************************)
\* Optional values: None is the empty tuple, a present value a 1-tuple.
None == <<>>

Some(x) == <<x>>

\* A float as an exact rational.
Rat(n, d) == [num |-> n, den |-> d]

ScoreLt(a, b) == a.num * b.den < b.num * a.den

ScoreLe(a, b) == a.num * b.den <= b.num * a.den

ScoreEq(a, b) == a.num * b.den = b.num * a.den

(***************************************************************************)
(* str methods                                                             *)
(***************************************************************************)
CharAt(s, i) == SubSeq(s, i, i)

UpperCase == "ABCDEFGHIJKLMNOPQRSTUVWXYZ"

LowerCase == "abcdefghijklmnopqrstuvwxyz"

Digits == "0123456789"

\* the one-character strings of s
CharsOf(s) == { CharAt(s, i) : i \in 1..Len(s) }

UpperChars == CharsOf(UpperCase)

DigitChars == CharsOf(Digits)

\* the characters a regular expression's \w and \b count as word characters
WordChars == CharsOf(UpperCase) \cup CharsOf(LowerCase) \cup CharsOf(Digits) \cup {"_"}

\* index of the one-character string c in s
IndexIn(c, s) == CHOOSE i \in 1..Len(s) : CharAt(s, i) = c

LowerOf == [c \in UpperChars |-> CharAt(LowerCase, IndexIn(c, UpperCase))]

LowerChar(c) == IF c \in UpperChars THEN LowerOf[c] ELSE c

RECURSIVE Lower(_)
\* str.lower()
Lower(s) ==
    IF s = "" THEN "" ELSE LowerChar(CharAt(s, 1)) \o Lower(SubSeq(s, 2, Len(s)))

IsSpace(c) == c \in {" ", "\t", "\n", "\r"}

IsDigit(c) == c \in DigitChars

IsWord(c) == c \in WordChars

RECURSIVE LStrip(_)
LStrip(s) ==
    IF s # "" /\ IsSpace(CharAt(s, 1)) THEN LStrip(SubSeq(s, 2, Len(s))) ELSE s

RECURSIVE RStrip(_)
RStrip(s) ==
    IF s # "" /\ IsSpace(CharAt(s, Len(s))) THEN RStrip(SubSeq(s, 1, Len(s) - 1)) ELSE s

\* str.strip()
Strip(s) == RStrip(LStrip(s))

\* Python's `sub in s`
Contains(sub, s) ==
    \E i \in 1..(Len(s) - Len(sub) + 1) : SubSeq(s, i, i + Len(sub) - 1) = sub

\* s.startswith(prefix)
StartsWith(s, prefix) ==
    Len(prefix) <= Len(s) /\ SubSeq(s, 1, Len(prefix)) = prefix

\* length of the run of non-whitespace characters of s that starts at i
RECURSIVE WordLen(_, _)
WordLen(s, i) ==
    IF i > Len(s) \/ IsSpace(CharAt(s, i)) THEN 0 ELSE 1 + WordLen(s, i + 1)

RECURSIVE Split(_)
\* str.split(): the whitespace-delimited words, in order
Split(s) ==
    LET t == LStrip(s)
        n == WordLen(t, 1)
    IN  IF t = "" THEN <<>>
        ELSE <<SubSeq(t, 1, n)>> \o Split(SubSeq(t, n + 1, Len(t)))

RECURSIVE Join(_, _)
\* sep.join(list)
Join(sep, list) ==
    IF list = <<>> THEN ""
    ELSE IF Len(list) = 1 THEN list[1]
    ELSE list[1] \o sep \o Join(sep, Tail(list))

(***************************************************************************)
(* difflib.SequenceMatcher(None, a, b).ratio()                             *)
(* Both strings are far shorter than the 200 characters at which the       *)
(* library's "autojunk" heuristic starts, and no junk predicate is given.  *)
(***************************************************************************)
\* character of s at i, "" outside the string
Ch(s, i) == IF i < 1 \/ i > Len(s) THEN "" ELSE SubSeq(s, i, i)

RECURSIVE RunLen(_, _, _, _, _, _)
\* length of the common run of a[i..ahi] and b[j..bhi] starting at (i, j)
RunLen(a, b, i, j, ahi, bhi) ==
    IF i > ahi \/ j > bhi \/ CharAt(a, i) # CharAt(b, j) THEN 0
    ELSE 1 + RunLen(a, b, i + 1, j + 1, ahi, bhi)

\* find_longest_match: <<i, j, k>> with k the greatest run length, then the
\* least start i in a, then the least start j in b; <<alo, blo, 0>> if none
FindLongestMatch(a, b, alo, ahi, blo, bhi) ==
    LET starts == {p \in (alo..ahi) \X (blo..bhi) : CharAt(a, p[1]) = CharAt(b, p[2])}
        run == [p \in starts |-> RunLen(a, b, p[1], p[2], ahi, bhi)]
        k == CHOOSE n \in {run[p] : p \in starts} : \A q \in starts : run[q] <= n
        besti == CHOOSE i \in alo..ahi :
                    /\ \E p \in starts : p[1] = i /\ run[p] = k
                    /\ \A p \in starts : run[p] = k => i <= p[1]
        bestj == CHOOSE j \in blo..bhi :
                    /\ <<besti, j>> \in starts /\ run[<<besti, j>>] = k
                    /\ \A p \in starts : (p[1] = besti /\ run[p] = k) => j <= p[2]
    IN  IF starts = {} THEN <<alo, blo, 0>> ELSE <<besti, bestj, k>>

RECURSIVE MatchCount(_, _, _, _, _, _)
\* total size of get_matching_blocks over a[alo..ahi], b[blo..bhi]
MatchCount(a, b, alo, ahi, blo, bhi) ==
    IF alo > ahi \/ blo > bhi THEN 0
    ELSE LET m == FindLongestMatch(a, b, alo, ahi, blo, bhi)
         IN  IF m[3] = 0 THEN 0
             ELSE m[3] + MatchCount(a, b, alo, m[1] - 1, blo, m[2] - 1)
                       + MatchCount(a, b, m[1] + m[3], ahi, m[2] + m[3], bhi)

\* the ratio taken over the first string's length alone
RatioOverFirst(a, b) ==
    IF Len(a) = 0 THEN Rat(1, 1)
    ELSE Rat(2 * MatchCount(a, b, 1, Len(a), 1, Len(b)), Len(a))

\* ratio(): 2.0 * matches / (len(a) + len(b)), 1.0 when both are empty
Ratio(a, b) ==
    IF Len(a) + Len(b) = 0 THEN Rat(1, 1)
    ELSE Rat(2 * MatchCount(a, b, 1, Len(a), 1, Len(b)), Len(a) + Len(b))

\* decimal digits of a natural number
RECURSIVE NatStr(_)
NatStr(n) == IF n < 10 THEN CharAt(Digits, n + 1)
             ELSE NatStr(n \div 10) \o CharAt(Digits, (n % 10) + 1)

\* format(x, ".2f") for a score in [0,1]: hundredths, ties to even (a tie is
\* an odd multiple of 1/200; for T < 80 such a ratio is a multiple of 1/8,
\* which a float holds exactly)
Fmt2(x) ==
    LET q == (x.num * 100) \div x.den
        r2 == 2 * ((x.num * 100) % x.den)
        h == IF r2 > x.den \/ (r2 = x.den /\ q % 2 = 1) THEN q + 1 ELSE q
    IN  NatStr(h \div 100) \o "." \o NatStr((h % 100) \div 10) \o NatStr(h % 10)

(***************************************************************************)
(* Synonym tables: dicts, iterated in insertion order                      *)
(***************************************************************************)
ExpenseSynonymTable ==
    <<
       [key |-> "food", synonyms |-> <<"meals", "restaurant", "dining", "eating", "lunch", "dinner", "breakfast">>],
       [key |-> "gas", synonyms |-> <<"fuel", "gasoline", "petrol", "diesel">>],
       [key |-> "travel", synonyms |-> <<"transportation", "transport", "trip", "journey">>],
       [key |-> "office", synonyms |-> <<"supplies", "equipment", "materials", "stationery">>],
       [key |-> "car", synonyms |-> <<"vehicle", "auto", "automobile", "automotive">>],
       [key |-> "phone", synonyms |-> <<"mobile", "cellular", "telecommunications", "telecom">>],
       [key |-> "internet", synonyms |-> <<"web", "online", "broadband", "wifi">>],
       [key |-> "insurance", synonyms |-> <<"coverage", "policy", "premium">>],
       [key |-> "rent", synonyms |-> <<"rental", "lease", "leasing">>],
       [key |-> "utilities", synonyms |-> <<"electric", "electricity", "water", "gas", "power">>],
       [key |-> "marketing", synonyms |-> <<"advertising", "promotion", "ads">>],
       [key |-> "software", synonyms |-> <<"subscription", "saas", "app", "application">>],
       [key |-> "training", synonyms |-> <<"education", "learning", "course", "workshop">>],
       [key |-> "legal", synonyms |-> <<"attorney", "lawyer", "law", "professional">>],
       [key |-> "accounting", synonyms |-> <<"bookkeeping", "tax", "financial">>],
       [key |-> "maintenance", synonyms |-> <<"repair", "service", "upkeep">>],
       [key |-> "entertainment", synonyms |-> <<"client", "business">>]
    >>

IncomeSynonymTable ==
    <<
       [key |-> "sales", synonyms |-> <<"revenue", "income", "receipts", "earnings">>],
       [key |-> "consulting", synonyms |-> <<"services", "professional", "advisory", "expertise">>],
       [key |-> "freelance", synonyms |-> <<"contract", "project", "gig", "independent">>],
       [key |-> "commission", synonyms |-> <<"referral", "bonus", "incentive">>],
       [key |-> "interest", synonyms |-> <<"dividend", "investment", "return">>],
       [key |-> "rental", synonyms |-> <<"rent", "lease", "property", "real estate", "rental income", "rent income", "property income", "leasing", "tenant">>],
       [key |-> "royalty", synonyms |-> <<"licensing", "intellectual property", "patent">>],
       [key |-> "other", synonyms |-> <<"miscellaneous", "misc", "various", "general">>]
    >>

(***************************************************************************)
(* WaveClient.find_best_account_match                                      *)
(***************************************************************************)
\* An account node is [id, name, type, subtype, isArchived], where type and
\* subtype stand for node["type"]["name"] and node["subtype"]["name"].

\* the tuple the engine returns
MatchResult(id, name, score, explanation) ==
    [accountId |-> id, accountName |-> name, score |-> score,
     explanation |-> explanation]

\* index of the first element of seq satisfying Test, 0 if there is none
FirstWhere(seq, Test(_)) ==
    IF \E i \in 1..Len(seq) : Test(seq[i])
    THEN CHOOSE i \in 1..Len(seq) : Test(seq[i]) /\ \A j \in 1..(i - 1) : ~Test(seq[j])
    ELSE 0

\* `x in list`
InList(x, list) == \E i \in 1..Len(list) : list[i] = x

income_variations == <<"Income", "INCOME", "Revenue", "REVENUE", "income">>

income_subtypes == <<"INCOME", "REVENUE", "SALES", "OTHER_INCOME">>

\* Strategy 1 without the test of isArchived
Strategy1KeepArchived(accs, atype) ==
    LET Keep(n) == n.type = atype IN SelectSeq(accs, Keep)

\* Strategy 1: exact type name
Strategy1(accs, atype) ==
    LET Keep(n) == n.type = atype /\ ~n.isArchived IN SelectSeq(accs, Keep)

\* Strategy 2: case-insensitive type name
Strategy2(accs, atype) ==
    LET Keep(n) == Lower(n.type) = Lower(atype) /\ ~n.isArchived IN SelectSeq(accs, Keep)

\* Strategy 3: Income variations
Strategy3(accs, atype) ==
    LET Keep(n) == InList(n.type, income_variations) /\ ~n.isArchived IN SelectSeq(accs, Keep)

\* Strategy 4: income-like subtypes
Strategy4(accs, atype) ==
    LET Keep(n) == InList(n.subtype, income_subtypes) /\ ~n.isArchived IN SelectSeq(accs, Keep)

\* the filter without the `if not filtered_accounts` tests: every
\* non-archived account that satisfies any strategy
FilteredAccountsAnyStrategy(accs, atype) ==
    LET Keep(n) == /\ ~n.isArchived
                   /\ \/ n.type = atype
                      \/ Lower(n.type) = Lower(atype)
                      \/ atype = "Income" /\ InList(n.type, income_variations)
                      \/ atype = "Income" /\ InList(n.subtype, income_subtypes)
    IN  SelectSeq(accs, Keep)

\* the filter with `and account_type == "Income"` left out of strategies
\* 3 and 4
FilteredAccountsForAnyClass(accs, atype) ==
    LET f1 == Strategy1(accs, atype)
        f2 == IF f1 = <<>> THEN Strategy2(accs, atype) ELSE f1
        f3 == IF f2 = <<>> THEN Strategy3(accs, atype) ELSE f2
        f4 == IF f3 = <<>> THEN Strategy4(accs, atype) ELSE f3
    IN  f4

\* filtered_accounts: the strategies in order, each tried only while the
\* list is still empty, the last two only for account_type "Income"
FilteredAccounts(accs, atype) ==
    LET f1 == Strategy1(accs, atype)
        f2 == IF f1 = <<>> THEN Strategy2(accs, atype) ELSE f1
        f3 == IF f2 = <<>> /\ atype = "Income" THEN Strategy3(accs, atype) ELSE f2
        f4 == IF f3 = <<>> /\ atype = "Income" THEN Strategy4(accs, atype) ELSE f3
    IN  f4

\* \b between positions p and p+1 of text
WordBoundary(text, p) == IsWord(Ch(text, p)) # IsWord(Ch(text, p + 1))

\* length of the run of digits of text that starts at i
RECURSIVE DigitRun(_, _)
DigitRun(text, i) == IF IsDigit(Ch(text, i)) THEN 1 + DigitRun(text, i + 1) ELSE 0

\* length of the run of whitespace of text that starts at i
RECURSIVE SpaceRun(_, _)
SpaceRun(text, i) ==
    IF Ch(text, i) # "" /\ IsSpace(Ch(text, i)) THEN 1 + SpaceRun(text, i + 1) ELSE 0

\* r'\b(14[2-6])\b'
PatternApartmentRange(text) ==
    { SubSeq(text, i, i + 2) : i \in { j \in 1..(Len(text) - 2) :
        /\ SubSeq(text, j, j + 1) = "14"
        /\ Ch(text, j + 2) \in {"2", "3", "4", "5", "6"}
        /\ WordBoundary(text, j - 1)
        /\ WordBoundary(text, j + 2) } }

\* r'\b<word>\s+(\d+)\b': the digits are the whole run (a shorter run would
\* end between two digits, where there is no boundary)
PatternWordNumber(text, word) ==
    { SubSeq(text, i + Len(word) + SpaceRun(text, i + Len(word)),
             i + Len(word) + SpaceRun(text, i + Len(word))
               + DigitRun(text, i + Len(word) + SpaceRun(text, i + Len(word))) - 1) :
      i \in { j \in 1..(Len(text) - Len(word) + 1) :
        LET sp == SpaceRun(text, j + Len(word))
            dg == DigitRun(text, j + Len(word) + sp)
        IN  /\ SubSeq(text, j, j + Len(word) - 1) = word
            /\ WordBoundary(text, j - 1)
            /\ sp >= 1
            /\ dg >= 1
            /\ WordBoundary(text, j + Len(word) + sp + dg - 1) } }

\* r'\b(\d{3})\b'
PatternThreeDigits(text) ==
    { SubSeq(text, i, i + 2) : i \in { j \in 1..(Len(text) - 2) :
        /\ IsDigit(Ch(text, j)) /\ IsDigit(Ch(text, j + 1)) /\ IsDigit(Ch(text, j + 2))
        /\ WordBoundary(text, j - 1)
        /\ WordBoundary(text, j + 2) } }

\* all_user_text = f"{user_category} {user_context or ''}"
AllUserText(category, context) ==
    category \o " " \o (IF context = None THEN "" ELSE context[1])

\* the token set without the matches of the "unit N" pattern
ApartmentNumberSetNoUnit(category, context) ==
    LET text == Lower(AllUserText(category, context))
    IN  PatternApartmentRange(text) \cup PatternWordNumber(text, "apartment")
        \cup PatternThreeDigits(text)

\* set(apartment_numbers): the matches of the four patterns over the
\* lower-cased text
ApartmentNumberSet(category, context) ==
    LET text == Lower(AllUserText(category, context))
    IN  PatternApartmentRange(text) \cup PatternWordNumber(text, "apartment")
        \cup PatternWordNumber(text, "unit") \cup PatternThreeDigits(text)

\* value of a digit string written after a leading 1 (distinct strings get
\* distinct values)
RECURSIVE DigitKey(_, _)
DigitKey(t, acc) ==
    IF t = "" THEN acc
    ELSE DigitKey(SubSeq(t, 2, Len(t)), 10 * acc + IndexIn(CharAt(t, 1), Digits) - 1)

\* the elements of a set of digit strings in ascending order
RECURSIVE SortedTokens(_)
SortedTokens(S) ==
    IF S = {} THEN <<>>
    ELSE LET m == CHOOSE t \in S : \A u \in S : DigitKey(t, 1) <= DigitKey(u, 1)
         IN  <<m>> \o SortedTokens(S \ {m})

\* the permutation of seq numbered by seed
RECURSIVE Permute(_, _)
Permute(seq, seed) ==
    IF seq = <<>> THEN <<>>
    ELSE LET n == Len(seq)
             k == (seed % n) + 1
             rest == [i \in 1..(n - 1) |-> IF i < k THEN seq[i] ELSE seq[i + 1]]
         IN  <<seq[k]>> \o Permute(rest, seed \div n)

\* list(set(apartment_numbers)): a set of strings iterates in the order of
\* the strings' hashes, which the interpreter salts per process; the seed
\* stands for the salt and selects the order
ApartmentNumbers(category, context, seed) ==
    Permute(SortedTokens(ApartmentNumberSet(category, context)), seed)

\* Stage 0 for one number without the test for "rental"
Stage0AccountAnyName(number, filtered) ==
    LET Hit(a) == Contains(number, Lower(a.name))
    IN  FirstWhere(filtered, Hit)

\* Stage 0 for one number: the first filtered account whose lower-cased name
\* contains the number and "rental"
Stage0Account(number, filtered) ==
    LET Hit(a) == Contains(number, Lower(a.name)) /\ Contains("rental", Lower(a.name))
    IN  FirstWhere(filtered, Hit)

RECURSIVE Stage0(_, _)
\* Stage 0: numbers are the outer loop, accounts the inner loop; None when
\* no pair matches
Stage0(numbers, filtered) ==
    IF numbers = <<>> THEN None
    ELSE LET i == Stage0Account(Head(numbers), filtered)
         IN  IF i # 0
             THEN Some(MatchResult(Some(filtered[i].id), Some(filtered[i].name), Rat(98, 100),
                       "Apartment-specific match: Found apartment " \o Head(numbers)
                       \o " in '" \o filtered[i].name \o "'"))
             ELSE Stage0(Tail(numbers), filtered)

\* sub-rule a against the name as written, not lower-cased
Stage1SubstringCaseSensitive(label, a) == Contains(label, a.name)

\* Stage 1, sub-rule a: exact substring match
Stage1Substring(label, a) == Contains(label, Lower(a.name))

\* Stage 1, sub-rule b: the account name starts with the category
Stage1Prefix(label, a) == StartsWith(Lower(a.name), label)

\* Stage 1, sub-rule c: the category starts with the account name's first word
Stage1CategoryPrefix(label, a) ==
    LET words_in_account == Split(Lower(a.name))
    IN  words_in_account # <<>> /\ StartsWith(label, words_in_account[1])

\* Stage 1 with the sub-rules as the outer loop: the first account that
\* satisfies sub-rule a, else the first that satisfies b, else c
Stage1RuleMajor(category, label, filtered) ==
    LET HitA(a) == Stage1Substring(label, a)
        HitB(a) == Stage1Prefix(label, a)
        HitC(a) == Stage1CategoryPrefix(label, a)
        ia == FirstWhere(filtered, HitA)
        ib == FirstWhere(filtered, HitB)
        ic == FirstWhere(filtered, HitC)
    IN  IF ia # 0
        THEN Some(MatchResult(Some(filtered[ia].id), Some(filtered[ia].name), Rat(1, 1),
                  "Exact substring match: '" \o category \o "' found in '"
                  \o filtered[ia].name \o "'"))
        ELSE IF ib # 0
        THEN Some(MatchResult(Some(filtered[ib].id), Some(filtered[ib].name), Rat(95, 100),
                  "Prefix match: '" \o filtered[ib].name \o "' starts with '" \o category \o "'"))
        ELSE IF ic # 0
        THEN Some(MatchResult(Some(filtered[ic].id), Some(filtered[ic].name), Rat(92, 100),
                  "Category prefix match: '" \o category \o "' starts with '"
                  \o Split(Lower(filtered[ic].name))[1] \o "' from '"
                  \o filtered[ic].name \o "'"))
        ELSE None

\* Stage 1 with sub-rule b tested before sub-rule a
Stage1PrefixFirst(category, label, filtered) ==
    LET Hit(a) == \/ Stage1Substring(label, a)
                  \/ Stage1Prefix(label, a)
                  \/ Stage1CategoryPrefix(label, a)
        i == FirstWhere(filtered, Hit)
        a == filtered[i]
    IN  IF i = 0 THEN None
        ELSE IF Stage1Prefix(label, a)
        THEN Some(MatchResult(Some(a.id), Some(a.name), Rat(95, 100),
                  "Prefix match: '" \o a.name \o "' starts with '" \o category \o "'"))
        ELSE IF Stage1Substring(label, a)
        THEN Some(MatchResult(Some(a.id), Some(a.name), Rat(1, 1),
                  "Exact substring match: '" \o category \o "' found in '" \o a.name \o "'"))
        ELSE Some(MatchResult(Some(a.id), Some(a.name), Rat(92, 100),
                  "Category prefix match: '" \o category \o "' starts with '"
                  \o Split(Lower(a.name))[1] \o "' from '" \o a.name \o "'"))

\* Stage 1: the first filtered account that satisfies a sub-rule, scored by
\* the first sub-rule it satisfies; None when no account does
Stage1(category, label, filtered) ==
    LET Hit(a) == \/ Stage1Substring(label, a)
                  \/ Stage1Prefix(label, a)
                  \/ Stage1CategoryPrefix(label, a)
        i == FirstWhere(filtered, Hit)
        a == filtered[i]
    IN  IF i = 0 THEN None
        ELSE IF Stage1Substring(label, a)
        THEN Some(MatchResult(Some(a.id), Some(a.name), Rat(1, 1),
                  "Exact substring match: '" \o category \o "' found in '" \o a.name \o "'"))
        ELSE IF Stage1Prefix(label, a)
        THEN Some(MatchResult(Some(a.id), Some(a.name), Rat(95, 100),
                  "Prefix match: '" \o a.name \o "' starts with '" \o category \o "'"))
        ELSE Some(MatchResult(Some(a.id), Some(a.name), Rat(92, 100),
                  "Category prefix match: '" \o category \o "' starts with '"
                  \o Split(Lower(a.name))[1] \o "' from '" \o a.name \o "'"))

\* best_match, best_score, best_explanation before Stage 2
NoBest == [match |-> None, score |-> Rat(0, 1), explanation |-> ""]

\* the update without the assignment to best_explanation
BetterKeepsExplanation(best, a, score, explanation) ==
    IF ScoreLt(best.score, score)
    THEN [match |-> Some(a), score |-> score, explanation |-> best.explanation]
    ELSE best

\* the update under `>=` instead of `>`
BetterOrEqual(best, a, score, explanation) ==
    IF ScoreLe(best.score, score) /\ ScoreLt(Rat(0, 1), score)
    THEN [match |-> Some(a), score |-> score, explanation |-> explanation]
    ELSE best

\* `if score > best_score:` with its three assignments
Better(best, a, score, explanation) ==
    IF ScoreLt(best.score, score)
    THEN [match |-> Some(a), score |-> score, explanation |-> explanation]
    ELSE best

\* Stage 2: direct fuzzy match of the category against the whole name
DirectFuzzy(best, category, label, a) ==
    LET similarity == Ratio(label, Lower(a.name))
    IN  Better(best, a, similarity, "Direct fuzzy match (score: " \o Fmt2(similarity) \o ")")

RECURSIVE WordFuzzy(_, _, _, _, _)
\* Stage 2: fuzzy match against each word of the name, in order
WordFuzzy(best, category, label, a, words) ==
    IF words = <<>> THEN best
    ELSE LET word_similarity == Ratio(label, Head(words))
         IN  WordFuzzy(Better(best, a, word_similarity,
                          "Word match: '" \o category \o "' ~ '" \o Head(words)
                          \o "' (score: " \o Fmt2(word_similarity) \o ")"),
                       category, label, a, Tail(words))

\* the loop body without its second `if` (the 0.88 test)
SynonymEntryTwoTests(best, category, label, a, entry) ==
    LET name == Lower(a.name)
        InName(w) == Contains(w, name)
        related == label = entry.key \/ InList(label, entry.synonyms)
        b1 == IF related /\ InName(entry.key)
              THEN Better(best, a, Rat(9, 10),
                       "Synonym match: '" \o category \o "' relates to '" \o entry.key
                       \o "' found in '" \o a.name \o "'")
              ELSE best
        s2 == FirstWhere(entry.synonyms, InName)
        b2 == IF related /\ s2 # 0
              THEN Better(b1, a, Rat(85, 100),
                       "Synonym match: '" \o category \o "' relates to '" \o entry.synonyms[s2]
                       \o "' found in '" \o a.name \o "'")
              ELSE b1
    IN  b2

\* Stage 2: one entry of the synonym dict against one account.  Each inner
\* loop offers one fixed score, so only its first hit can raise the best.
SynonymEntry(best, category, label, a, entry) ==
    LET name == Lower(a.name)
        InName(w) == Contains(w, name)
        related == label = entry.key \/ InList(label, entry.synonyms)
        all == <<entry.key>> \o entry.synonyms
        b1 == IF related /\ InName(entry.key)
              THEN Better(best, a, Rat(9, 10),
                       "Synonym match: '" \o category \o "' relates to '" \o entry.key
                       \o "' found in '" \o a.name \o "'")
              ELSE best
        s2 == FirstWhere(entry.synonyms, InName)
        b2 == IF related /\ s2 # 0
              THEN Better(b1, a, Rat(85, 100),
                       "Synonym match: '" \o category \o "' relates to '" \o entry.synonyms[s2]
                       \o "' found in '" \o a.name \o "'")
              ELSE b1
        s3 == FirstWhere(all, InName)
        b3 == IF InList(label, all) /\ s3 # 0
              THEN Better(b2, a, Rat(88, 100),
                       "Synonym match: '" \o category \o "' relates to '" \o all[s3]
                       \o "' in '" \o a.name \o "'")
              ELSE b2
    IN  b3

\* the test with `or user_category_lower in synonym_list` left out
RelatedKeyOnly(label, entry) == label = entry.key

\* the category is the entry's key or one of its synonyms (both `if`s of
\* the loop body test this)
Related(label, entry) == label = entry.key \/ InList(label, entry.synonyms)

\* Stage 2 without its synonym loop
SynonymScanSkipped(best, category, label, a, table) == best

RECURSIVE SynonymFold(_, _, _, _, _)
\* the loop body applied to the entries in order
SynonymFold(best, category, label, a, entries) ==
    IF entries = <<>> THEN best
    ELSE SynonymFold(SynonymEntry(best, category, label, a, Head(entries)),
                     category, label, a, Tail(entries))

\* Stage 2: `for key, synonym_list in synonyms.items()`; both `if`s of the
\* body test Related, so only the related entries, in dict order, can act
SynonymScan(best, category, label, a, table) ==
    LET IsRelated(e) == Related(label, e)
    IN  SynonymFold(best, category, label, a, SelectSeq(table, IsRelated))

RECURSIVE Stage2(_, _, _, _, _)
\* Stage 2: one pass over the filtered accounts, keeping the running best
Stage2(best, category, label, filtered, table) ==
    IF filtered = <<>> THEN best
    ELSE LET a == Head(filtered)
             d == DirectFuzzy(best, category, label, a)
             w == WordFuzzy(d, category, label, a, Split(Lower(a.name)))
             y == SynonymScan(w, category, label, a, table)
         IN  Stage2(y, category, label, Tail(filtered), table)

\* the names of every filtered account, without the [:3] slice
AvailableAccountsAll(filtered) ==
    Join(", ", [i \in 1..Len(filtered) |-> filtered[i].name])

\* ', '.join([acc['name'] for acc in filtered_accounts[:3]])
AvailableAccounts(filtered) ==
    Join(", ", [i \in 1..(IF Len(filtered) < 3 THEN Len(filtered) ELSE 3) |-> filtered[i].name])

\* Stage 3: relevant_keywords, taken from the first entry the category
\* belongs to (the loop breaks there)
RelevantKeywords(label, table) ==
    LET IsRelated(e) == Related(label, e)
        i == FirstWhere(table, IsRelated)
    IN  IF i = 0 THEN <<>> ELSE <<table[i].key>> \o table[i].synonyms

\* Stage 3: keyword fallback, first account (outer loop) containing a
\* keyword (inner loop)
KeywordFallback(category, label, filtered, table) ==
    LET keywords == RelevantKeywords(label, table)
        HasKeyword(a) == \E k \in 1..Len(keywords) : Contains(keywords[k], Lower(a.name))
        i == FirstWhere(filtered, HasKeyword)
        a == filtered[i]
        InName(w) == Contains(w, Lower(a.name))
    IN  IF i = 0 THEN None
        ELSE Some(MatchResult(Some(a.id), Some(a.name), Rat(5, 10),
                  "Fallback match: Found '" \o keywords[FirstWhere(keywords, InName)]
                  \o "' in '" \o a.name \o "' based on category '" \o category
                  \o "'. Available accounts: " \o AvailableAccounts(filtered)))

avoid_terms == <<"foreign", "exchange", "gain", "loss", "interest", "dividend">>

\* the rental fallback without the test of the avoided terms: the first
\* filtered account
RentalFallbackFirstAccount(category, label, filtered) ==
    IF InList(label, <<"rent", "rental", "property">>) /\ Len(filtered) > 1
    THEN Some(MatchResult(Some(filtered[1].id), Some(filtered[1].name), Rat(2, 10),
              "Smart fallback: Selected '" \o filtered[1].name
              \o "' (avoided obviously unrelated accounts). Available accounts: "
              \o AvailableAccounts(filtered)))
    ELSE None

\* Stage 3: rental fallback, first account whose name has no avoided term
RentalFallback(category, label, filtered) ==
    LET Unrelated(a) == \A k \in 1..Len(avoid_terms) : ~Contains(avoid_terms[k], Lower(a.name))
        i == IF InList(label, <<"rent", "rental", "property">>) /\ Len(filtered) > 1
             THEN FirstWhere(filtered, Unrelated) ELSE 0
        a == filtered[i]
    IN  IF i = 0 THEN None
        ELSE Some(MatchResult(Some(a.id), Some(a.name), Rat(2, 10),
                  "Smart fallback: Selected '" \o a.name
                  \o "' (avoided obviously unrelated accounts). Available accounts: "
                  \o AvailableAccounts(filtered)))

\* the final fallback with the warning appended whatever the list's length
FirstAccountFallbackAlwaysWarns(category, atype, filtered) ==
    MatchResult(Some(filtered[1].id), Some(filtered[1].name), Rat(1, 10),
                "No good match for '" \o category \o "'. Using default: '"
                \o filtered[1].name \o "'. Available accounts: "
                \o AvailableAccounts(filtered)
                \o ". WARNING: Only one " \o Lower(atype)
                \o " account found - this suggests account filtering issues."
                \o " Use 'debug_accounts' tool to investigate.")

\* the final fallback returning its first account at score 0.0
FirstAccountFallbackUnscored(category, atype, filtered) ==
    MatchResult(Some(filtered[1].id), Some(filtered[1].name), Rat(0, 1),
                "No good match for '" \o category \o "'. Using default: '"
                \o filtered[1].name \o "'. Available accounts: " \o AvailableAccounts(filtered))

\* the final fallback left out: the function falls through to its last line
FirstAccountFallbackMissing(category, atype, filtered) ==
    MatchResult(None, None, Rat(0, 1), "No " \o Lower(atype) \o " accounts available")

\* Stage 3: final fallback to the first account (the literal's two
\* non-ASCII warning-sign characters before "WARNING" are left out)
FirstAccountFallback(category, atype, filtered) ==
    LET first_account == filtered[1]
        explanation == "No good match for '" \o category \o "'. Using default: '"
                       \o first_account.name \o "'. Available accounts: "
                       \o AvailableAccounts(filtered)
        warning == IF Len(filtered) = 1
                   THEN ". WARNING: Only one " \o Lower(atype)
                        \o " account found - this suggests account filtering issues."
                        \o " Use 'debug_accounts' tool to investigate."
                   ELSE ""
    IN  MatchResult(Some(first_account.id), Some(first_account.name), Rat(1, 10),
                    explanation \o warning)

\* error_msg without the account type
NoAccountsFoundUnnamed(atype) == "No accounts found."

\* error_msg of the empty filtered list
NoAccountsFound(atype) ==
    "No " \o Lower(atype) \o " accounts found."
    \o (IF atype = "Income"
        THEN " This might explain the rental income matching issue. "
             \o "Try using the 'debug_accounts' tool to see all account types and identify your rental income accounts."
        ELSE "")

\* the code after the Stage 2 loops with `best_score > 0.6` as the accept test
AcceptOrFallbackAbove(best, category, label, atype, filtered, table) ==
    LET keyword == KeywordFallback(category, label, filtered, table)
        rental == RentalFallback(category, label, filtered)
    IN  IF best.match # None /\ ScoreLt(Rat(6, 10), best.score)
        THEN MatchResult(Some(best.match[1].id), Some(best.match[1].name),
                         best.score, best.explanation)
        ELSE IF filtered = <<>>
        THEN MatchResult(None, None, Rat(0, 1), "No " \o Lower(atype) \o " accounts available")
        ELSE IF best.match # None /\ ScoreLt(Rat(3, 10), best.score)
        THEN MatchResult(Some(best.match[1].id), Some(best.match[1].name), best.score,
                         "Best available match (low confidence): " \o best.explanation
                         \o ". Available accounts: " \o AvailableAccounts(filtered))
        ELSE IF keyword # None THEN keyword[1]
        ELSE IF rental # None THEN rental[1]
        ELSE FirstAccountFallback(category, atype, filtered)

\* the code after the Stage 2 loops, on their best match: accept at 0.6,
\* else Stage 3
AcceptOrFallback(best, category, label, atype, filtered, table) ==
    LET keyword == KeywordFallback(category, label, filtered, table)
        rental == RentalFallback(category, label, filtered)
    IN  IF best.match # None /\ ScoreLe(Rat(6, 10), best.score)
        THEN MatchResult(Some(best.match[1].id), Some(best.match[1].name),
                         best.score, best.explanation)
        ELSE IF filtered = <<>>
        THEN MatchResult(None, None, Rat(0, 1), "No " \o Lower(atype) \o " accounts available")
        ELSE IF best.match # None /\ ScoreLt(Rat(3, 10), best.score)
        THEN MatchResult(Some(best.match[1].id), Some(best.match[1].name), best.score,
                         "Best available match (low confidence): " \o best.explanation
                         \o ". Available accounts: " \o AvailableAccounts(filtered))
        ELSE IF keyword # None THEN keyword[1]
        ELSE IF rental # None THEN rental[1]
        ELSE FirstAccountFallback(category, atype, filtered)

\* Stages 2 and 3, entered when Stages 0 and 1 returned nothing
FuzzyAndFallback(category, label, atype, filtered, table) ==
    AcceptOrFallback(Stage2(NoBest, category, label, filtered, table),
                     category, label, atype, filtered, table)

\* list[i] raises IndexError outside the list (i counted from 1)
IndexError(list, i) == i < 1 \/ i > Len(list)

\* Stage 1 on one account with `words_in_account and` left out:
\* words_in_account[0] is evaluated whenever sub-rules a and b fail
Stage1RaisesUnguarded(label, a) ==
    /\ ~Stage1Substring(label, a)
    /\ ~Stage1Prefix(label, a)
    /\ IndexError(Split(Lower(a.name)), 1)

\* Stage 1 on one account raises: sub-rules a and b fail, the guard
\* `words_in_account and` passes and words_in_account[0] is out of range
Stage1Raises(label, a) ==
    /\ ~Stage1Substring(label, a)
    /\ ~Stage1Prefix(label, a)
    /\ Split(Lower(a.name)) # <<>>
    /\ IndexError(Split(Lower(a.name)), 1)

\* the Stage 1 loop raises at the i-th filtered account: no earlier
\* account returned and this one raises
Stage1LoopRaises(label, filtered) ==
    \E i \in 1..Len(filtered) :
        /\ \A j \in 1..(i - 1) : ~Stage1Substring(label, filtered[j])
                                  /\ ~Stage1Prefix(label, filtered[j])
                                  /\ ~Stage1CategoryPrefix(label, filtered[j])
        /\ Stage1Raises(label, filtered[i])

\* the call ends in an exception instead of a return statement: an index
\* out of range in Stage 1, or filtered_accounts[0] in Stage 3 (guarded by
\* `if filtered_accounts:`); every other operation is total on strings
Raises(category, accs, atype, context, seed) ==
    /\ category # ""
    /\ FilteredAccounts(accs, atype) # <<>>
    /\ \/ /\ \/ atype # "Income"
              \/ Stage0(ApartmentNumbers(category, context, seed),
                        FilteredAccounts(accs, atype)) = None
          /\ Stage1LoopRaises(Strip(Lower(category)), FilteredAccounts(accs, atype))
       \/ /\ FilteredAccounts(accs, atype) # <<>>
          /\ IndexError(FilteredAccounts(accs, atype), 1)

\* the engine with `and account_type == "Income"` left out of Stage 0's test
find_best_account_match_Stage0AnyClass(category, accs, atype, context, expense, income, seed) ==
    LET filtered == FilteredAccounts(accs, atype)
        label == Strip(Lower(category))
        synonyms == IF atype = "Expenses" THEN expense ELSE income
        apartment_numbers == ApartmentNumbers(category, context, seed)
        stage0 == IF apartment_numbers # <<>>
                  THEN Stage0(apartment_numbers, filtered) ELSE None
        stage1 == Stage1(category, label, filtered)
    IN  IF category = "" THEN MatchResult(None, None, Rat(0, 1), "No category provided")
        ELSE IF filtered = <<>> THEN MatchResult(None, None, Rat(0, 1), NoAccountsFound(atype))
        ELSE IF stage0 # None THEN stage0[1]
        ELSE IF stage1 # None THEN stage1[1]
        ELSE FuzzyAndFallback(category, label, atype, filtered, synonyms)

\* the engine with Stage 1 tried before Stage 0
find_best_account_match_Stage1First(category, accs, atype, context, expense, income, seed) ==
    LET filtered == FilteredAccounts(accs, atype)
        label == Strip(Lower(category))
        synonyms == IF atype = "Expenses" THEN expense ELSE income
        apartment_numbers == ApartmentNumbers(category, context, seed)
        stage0 == IF apartment_numbers # <<>> /\ atype = "Income"
                  THEN Stage0(apartment_numbers, filtered) ELSE None
        stage1 == Stage1(category, label, filtered)
    IN  IF category = "" THEN MatchResult(None, None, Rat(0, 1), "No category provided")
        ELSE IF filtered = <<>> THEN MatchResult(None, None, Rat(0, 1), NoAccountsFound(atype))
        ELSE IF stage1 # None THEN stage1[1]
        ELSE IF stage0 # None THEN stage0[1]
        ELSE FuzzyAndFallback(category, label, atype, filtered, synonyms)

\* find_best_account_match(user_category, accounts, account_type,
\* user_context), reading the two synonym dicts and the hash seed
find_best_account_match(category, accs, atype, context, expense, income, seed) ==
    LET filtered == FilteredAccounts(accs, atype)
        label == Strip(Lower(category))
        synonyms == IF atype = "Expenses" THEN expense ELSE income
        apartment_numbers == ApartmentNumbers(category, context, seed)
        stage0 == IF apartment_numbers # <<>> /\ atype = "Income"
                  THEN Stage0(apartment_numbers, filtered) ELSE None
        stage1 == Stage1(category, label, filtered)
    IN  IF category = "" THEN MatchResult(None, None, Rat(0, 1), "No category provided")
        ELSE IF filtered = <<>> THEN MatchResult(None, None, Rat(0, 1), NoAccountsFound(atype))
        ELSE IF stage0 # None THEN stage0[1]
        ELSE IF stage1 # None THEN stage1[1]
        ELSE FuzzyAndFallback(category, label, atype, filtered, synonyms)

(***************************************************************************)
(* Inputs of the engine                                                    *)
(***************************************************************************)
\* longest candidate account list
MaxAccounts == 2

\* hash seeds 0..MaxSeed a process can start with
MaxSeed == 1

HashSeeds == 0..MaxSeed

Account(id, name, type, subtype, archived) ==
    [id |-> id, name |-> name, type |-> type, subtype |-> subtype, isArchived |-> archived]

\* the accounts candidate lists are drawn from
AccountUniverse ==
    { Account("i1", "Rental Income - 142", "Income", "INCOME", FALSE),
      Account("i2", "Rental Income - 144", "Income", "INCOME", FALSE),
      Account("i3", "Consulting Revenue", "INCOME", "REVENUE", FALSE),
      Account("i4", "Sales", "Revenue", "SALES", FALSE),
      Account("i5", "Interest Earned", "Other", "OTHER_INCOME", FALSE),
      Account("i6", "Rent", "Income", "INCOME", TRUE),
      Account("e1", "Rent", "Expenses", "EXPENSE", FALSE),
      Account("e2", "Office Rent", "Expenses", "EXPENSE", FALSE),
      Account("e3", "Meals & Entertainment", "Expenses", "EXPENSE", FALSE),
      Account("e4", "Foreign Exchange Loss", "EXPENSES", "EXPENSE", FALSE) }

\* the lists of at most MaxAccounts distinct accounts of U
ListsOver(U) ==
    UNION { { l \in [1..n -> U] : \A i, j \in 1..n : i # j => l[i] # l[j] }
            : n \in 0..MaxAccounts }

\* candidate lists: the accounts of a chart are distinct
AccountLists == ListsOver(AccountUniverse)

Categories ==
    { "", "rent", "RENT", "food", "xyz", "sales", "property", "Office Rent",
      "Rental Income - 144" }

Contexts == { None, Some("apartment 144 payment"), Some("142 144") }

AccountTypes == { "Income", "Expenses" }

\* value of result before the engine has returned
NotReturned == MatchResult(None, None, Rat(0, 1), "")

\* no tool invocation is being handled
NoTool == [name |-> "none"]

\* current_page and total_pages before a response was read
NoPageInfo == [current_page |-> 0, total_pages |-> 0]

\* get_accounts is not running
NotPaging ==
    /\ page = 1
    /\ all_accounts = <<>>
    /\ page_info = NoPageInfo
    /\ gpc = "idle"

(***************************************************************************)
(* Specification of the engine: a process that started with some hash     *)
(* seed calls the engine on arbitrary arguments.                           *)
(***************************************************************************)
Init ==
    /\ EXPENSE_SYNONYMS = ExpenseSynonymTable
    /\ INCOME_SYNONYMS = IncomeSynonymTable
    /\ hashSeed \in HashSeeds
    /\ user_category \in Categories
    /\ user_context \in Contexts
    /\ account_type \in AccountTypes
    /\ accounts \in AccountLists
    /\ result = NotReturned
    /\ prev_result = NotReturned
    /\ pc = "called"
    /\ business_id = None
    /\ tool = NoTool
    /\ wpc = "idle"
    /\ requests = <<>>
    /\ NotPaging

\* the call with Stage 3's relevant_keywords aliased to the dict's own list
\* (relevant_keywords = synonym_list; relevant_keywords.insert(0, key))
CallFindBestAccountMatchAliasing ==
    LET Prepend(table) ==
            LET IsRelated(e) == Related(Strip(Lower(user_category)), e)
                i == FirstWhere(table, IsRelated)
            IN  IF i = 0 THEN table
                ELSE [table EXCEPT ![i].synonyms = <<table[i].key>> \o @]
        reached == /\ result'.accountId # None
                   /\ ScoreLe(result'.score, Rat(3, 10))
    IN  /\ pc = "called"
        /\ result' = find_best_account_match(user_category, accounts, account_type,
                          user_context, EXPENSE_SYNONYMS, INCOME_SYNONYMS, hashSeed)
        /\ pc' = "returned"
        /\ EXPENSE_SYNONYMS' = IF reached /\ account_type = "Expenses"
                                THEN Prepend(EXPENSE_SYNONYMS) ELSE EXPENSE_SYNONYMS
        /\ INCOME_SYNONYMS' = IF reached /\ account_type # "Expenses"
                               THEN Prepend(INCOME_SYNONYMS) ELSE INCOME_SYNONYMS
        /\ UNCHANGED <<pagingVars, hashSeed, user_category, user_context, account_type, accounts,
                       prev_result, business_id, tool, wpc, requests>>

\* the call runs to its return statement, or to an exception; it assigns
\* to locals only
CallFindBestAccountMatch ==
    /\ pc = "called"
    /\ IF Raises(user_category, accounts, account_type, user_context, hashSeed)
       THEN /\ result' = result
            /\ pc' = "raised"
       ELSE /\ result' = find_best_account_match(user_category, accounts, account_type,
                              user_context, EXPENSE_SYNONYMS, INCOME_SYNONYMS, hashSeed)
            /\ pc' = "returned"
    /\ UNCHANGED <<pagingVars, EXPENSE_SYNONYMS, INCOME_SYNONYMS, hashSeed, user_category, user_context,
                   account_type, accounts, prev_result, business_id, tool, wpc, requests>>

\* a second call with the same arguments
RepeatFindBestAccountMatch ==
    /\ pc = "returned"
    /\ prev_result' = result
    /\ result' = find_best_account_match(user_category, accounts, account_type, user_context,
                                         EXPENSE_SYNONYMS, INCOME_SYNONYMS, hashSeed)
    /\ pc' = "repeated"
    /\ UNCHANGED <<pagingVars, EXPENSE_SYNONYMS, INCOME_SYNONYMS, hashSeed, user_category, user_context,
                   account_type, accounts, business_id, tool, wpc, requests>>

\* the server process is started again: the interpreter salts str hashes anew
Restart ==
    /\ pc = "returned"
    /\ \E seed \in HashSeeds \ {hashSeed} : hashSeed' = seed
    /\ UNCHANGED <<pagingVars, EXPENSE_SYNONYMS, INCOME_SYNONYMS, user_category, user_context,
                   account_type, accounts, result, prev_result, pc, business_id, tool,
                   wpc, requests>>

Next == CallFindBestAccountMatch

Spec == Init /\ [][Next]_vars

(***************************************************************************)
(* Specification of the engine over a chart with unusual names: an empty   *)
(* and a blank name, an Expenses account named like a rental unit, an      *)
(* Income account that names a unit without being a rental account.        *)
(***************************************************************************)
EdgeUniverse ==
    { Account("x1", "Rent", "Expenses", "EXPENSE", FALSE),
      Account("x2", "Rental Equipment 144", "Expenses", "EXPENSE", FALSE),
      Account("x3", "", "Expenses", "EXPENSE", FALSE),
      Account("x4", "Agents Fees", "Expenses", "EXPENSE", FALSE),
      Account("x5", "  ", "Income", "INCOME", FALSE),
      Account("x6", "Unit 144 Deposits", "Income", "INCOME", FALSE),
      Account("x7", "Rental Income - 144", "Income", "INCOME", FALSE),
      Account("x8", "Rental Income - 142", "Income", "INCOME", FALSE) }

EdgeCategories == { "rent", " ", "Rental Equipment 144", "xyz" }

EdgeContexts == { None, Some("unit 144"), Some("142 144") }

InitEdge ==
    /\ EXPENSE_SYNONYMS = ExpenseSynonymTable
    /\ INCOME_SYNONYMS = IncomeSynonymTable
    /\ hashSeed \in HashSeeds
    /\ user_category \in EdgeCategories
    /\ user_context \in EdgeContexts
    /\ account_type \in AccountTypes
    /\ accounts \in ListsOver(EdgeUniverse)
    /\ result = NotReturned
    /\ prev_result = NotReturned
    /\ pc = "called"
    /\ business_id = None
    /\ tool = NoTool
    /\ wpc = "idle"
    /\ requests = <<>>
    /\ NotPaging

SpecEdge == InitEdge /\ [][Next]_vars

(***************************************************************************)
(* Specification of the engine over a chart whose names are far from the   *)
(* labels: Stage 2 scores at and around 0.3, names with the fallback's     *)
(* avoided terms, synonym hits, charts of four accounts, and contexts      *)
(* whose numbers are not three digits long.                                *)
(***************************************************************************)
FallbackUniverse ==
    { Account("f1", "Depreciation", "Expenses", "EXPENSE", FALSE),
      Account("f2", "Foreign Exchange Loss", "Expenses", "EXPENSE", FALSE),
      Account("f3", "Loss on Disposal", "Expenses", "EXPENSE", FALSE),
      Account("f4", "Meals & Entertainment", "Expenses", "EXPENSE", FALSE),
      Account("f5", "Food & Drink", "Expenses", "EXPENSE", FALSE),
      Account("f6", "Payroll", "Expenses", "EXPENSE", FALSE),
      Account("g1", "Interest Earned", "Income", "INCOME", FALSE),
      Account("g2", "Gain on Sale", "Income", "INCOME", FALSE) }

\* charts longer than the three names an explanation lists
LongCharts ==
    { <<Account("f2", "Foreign Exchange Loss", "Expenses", "EXPENSE", FALSE),
        Account("f3", "Loss on Disposal", "Expenses", "EXPENSE", FALSE),
        Account("f1", "Depreciation", "Expenses", "EXPENSE", FALSE),
        Account("f6", "Payroll", "Expenses", "EXPENSE", FALSE)>>,
      <<Account("f2", "Foreign Exchange Loss", "Expenses", "EXPENSE", FALSE),
        Account("f3", "Loss on Disposal", "Expenses", "EXPENSE", FALSE),
        Account("g2", "Gain on Sale", "Income", "INCOME", FALSE),
        Account("f1", "Depreciation", "Expenses", "EXPENSE", FALSE)>> }

FallbackCategories == { "", "property", "rent", "food", "meals", "xyz" }

FallbackContexts == { None, Some("Apartment 144 unit 7") }

InitFallback ==
    /\ EXPENSE_SYNONYMS = ExpenseSynonymTable
    /\ INCOME_SYNONYMS = IncomeSynonymTable
    /\ hashSeed \in HashSeeds
    /\ user_category \in FallbackCategories
    /\ user_context \in FallbackContexts
    /\ account_type \in AccountTypes
    /\ accounts \in ListsOver(FallbackUniverse) \cup LongCharts
    /\ result = NotReturned
    /\ prev_result = NotReturned
    /\ pc = "called"
    /\ business_id = None
    /\ tool = NoTool
    /\ wpc = "idle"
    /\ requests = <<>>
    /\ NotPaging

SpecFallback == InitFallback /\ [][Next]_vars

(***************************************************************************)
(* Specification of repeated calls: Income queries over Income accounts,   *)
(* each called, then called again with the same arguments, the process     *)
(* possibly restarted in between.                                          *)
(***************************************************************************)
InitIncome ==
    /\ Init
    /\ account_type = "Income"
    /\ \A i \in 1..Len(accounts) : accounts[i].type = "Income"

NextRestart == CallFindBestAccountMatch \/ RepeatFindBestAccountMatch \/ Restart

SpecRestart == InitIncome /\ [][NextRestart]_vars

(***************************************************************************)
(* handle_call_tool: set_business, create_expense_from_receipt and         *)
(* create_income_from_payment.  An action is one backend request with its  *)
(* response and the synchronous code that follows up to the next request;  *)
(* other tool calls run between the actions, at the handler's awaits.      *)
(***************************************************************************)
BusinessIds == { "b1", "b2" }

\* what a client may pass as set_business's "business_id": any string, the
\* empty one included
BusinessIdArguments == BusinessIds \cup { "" }

\* charts of accounts the backend may return to a workflow
Charts ==
    { <<>>,
      <<Account("i6", "Rent", "Income", "INCOME", TRUE)>>,
      <<Account("e1", "Rent", "Expenses", "EXPENSE", FALSE)>>,
      <<Account("i1", "Rental Income - 142", "Income", "INCOME", FALSE),
        Account("i2", "Rental Income - 144", "Income", "INCOME", FALSE)>>,
      <<Account("e3", "Meals & Entertainment", "Expenses", "EXPENSE", FALSE),
        Account("i3", "Consulting Revenue", "INCOME", "REVENUE", FALSE)>> }

\* what get_anchor_accounts may return: nodes of bank and credit card accounts
AnchorLists ==
    { <<>>,
      <<[id |-> "k1", name |-> "Checking"]>>,
      <<[id |-> "k2", name |-> "Visa"], [id |-> "k1", name |-> "Checking"]>> }

\* the "category" / "income_category" argument (None: not given)
ToolCategories == { None, Some(""), Some("rent") }

\* the arguments of a create_expense_from_receipt or
\* create_income_from_payment call, with the handler's locals
ToolCalls ==
    [ name : { "create_expense_from_receipt", "create_income_from_payment" },
      category : ToolCategories,
      description : { "apartment 144 payment" },
      payment_description : { "rent 142" },
      party_name : { None, Some("Acme") },
      payment_account : { None, Some("checking") },
      party_id : { None },
      anchor_account_id : { None },
      response : { "pending" } ]

\* the tools that issue one lookup request and format its response
LookupTools ==
    { "get_expense_accounts", "search_vendor", "get_income_accounts", "search_customer",
      "debug_accounts", "list_businesses" }

\* the calls of those tools; the fields of the workflows' locals stay unset
LookupCalls ==
    [ name : LookupTools,
      category : { None },
      description : { "" },
      payment_description : { "" },
      party_name : { None },
      payment_account : { None },
      party_id : { None },
      anchor_account_id : { None },
      response : { "pending" } ]

\* the branches of handle_call_tool that start with
\* `if not wave_client.business_id: return ...`
NeedsBusiness(t) == t.name # "list_businesses"

\* the request a lookup tool issues
LookupRequest(t) ==
    IF t.name = "list_businesses" THEN [op |-> "businesses"]
    ELSE [op |-> IF t.name = "search_vendor" THEN "vendors"
                 ELSE IF t.name = "search_customer" THEN "customers"
                 ELSE "accounts",
          businessId |-> business_id[1]]

IsExpense(t) == t.name = "create_expense_from_receipt"

\* arguments.get("category", "General Expenses") / .get("income_category", "Sales")
CategoryOf(t) ==
    IF t.category # None THEN t.category[1]
    ELSE IF IsExpense(t) THEN "General Expenses" ELSE "Sales"

\* the context argument: description, or f"{description} {payment_description}"
ContextOf(t) ==
    IF IsExpense(t) THEN t.description
    ELSE t.description \o " " \o t.payment_description

\* the first anchor account whose name equals the requested one
\* case-insensitively, 0 if none
AnchorIndex(anchors, wanted) ==
    LET Same(a) == Lower(a.name) = Lower(wanted) IN FirstWhere(anchors, Same)

\* Python truthiness of an optional string
Truthy(opt) == opt # None /\ opt[1] # ""

InitWorkflow ==
    /\ EXPENSE_SYNONYMS = ExpenseSynonymTable
    /\ INCOME_SYNONYMS = IncomeSynonymTable
    /\ hashSeed \in HashSeeds
    /\ user_category = ""
    /\ user_context = None
    /\ account_type = "Expenses"
    /\ accounts = <<>>
    /\ result = NotReturned
    /\ prev_result = NotReturned
    /\ pc = "idle"
    /\ business_id \in {None} \cup { Some(b) : b \in BusinessIds }
    /\ tool = NoTool
    /\ wpc = "idle"
    /\ requests = <<>>
    /\ NotPaging

engineVars == <<user_category, user_context, account_type, accounts, result, pc>>

\* name == "set_business": arguments["business_id"] is stored as given
set_business ==
    /\ \E b \in BusinessIdArguments : business_id' = Some(b)
    /\ UNCHANGED <<pagingVars, EXPENSE_SYNONYMS, INCOME_SYNONYMS, hashSeed, prev_result, engineVars,
                   tool, wpc, requests>>

\* the handler is entered: without a business it returns the error at once
Invoke ==
    /\ wpc = "idle"
    /\ \E t \in ToolCalls :
         IF ~Truthy(business_id)
         THEN /\ tool' = [t EXCEPT !.response = "Error: No business selected. Use set_business tool first."]
              /\ wpc' = "done"
         ELSE /\ tool' = t
              /\ wpc' = IF Truthy(t.party_name) THEN "party" ELSE "accounts"
    /\ UNCHANGED <<pagingVars, EXPENSE_SYNONYMS, INCOME_SYNONYMS, hashSeed, prev_result, engineVars,
                   business_id, requests>>

\* a lookup tool is entered with every branch's guard left out
InvokeLookupUnguarded ==
    /\ wpc = "idle"
    /\ \E t \in LookupCalls :
         /\ tool' = t
         /\ wpc' = "lookup"
    /\ UNCHANGED <<pagingVars, EXPENSE_SYNONYMS, INCOME_SYNONYMS, hashSeed, prev_result, engineVars,
                   business_id, requests>>

\* a lookup tool is entered: every branch but list_businesses returns the
\* error at once without a business
InvokeLookup ==
    /\ wpc = "idle"
    /\ \E t \in LookupCalls :
         IF NeedsBusiness(t) /\ ~Truthy(business_id)
         THEN /\ tool' = [t EXCEPT !.response = "Error: No business selected. Use set_business tool first."]
              /\ wpc' = "done"
         ELSE /\ tool' = t
              /\ wpc' = "lookup"
    /\ UNCHANGED <<pagingVars, EXPENSE_SYNONYMS, INCOME_SYNONYMS, hashSeed, prev_result, engineVars,
                   business_id, requests>>

\* the except clause: a request that fails ends the handler with an error
RequestFails ==
    /\ tool' = [tool EXCEPT !.response = "Error: request failed"]
    /\ wpc' = "done"

\* get_accounts / get_vendors / get_customers / get_business_info of a
\* lookup tool, and the text built from the response
Lookup ==
    /\ wpc = "lookup"
    /\ requests' = Append(requests, LookupRequest(tool))
    /\ \/ /\ tool' = [tool EXCEPT !.response = "listed"]
          /\ wpc' = "done"
       \/ RequestFails
    /\ UNCHANGED <<pagingVars, EXPENSE_SYNONYMS, INCOME_SYNONYMS, hashSeed, prev_result, engineVars,
                   business_id>>

\* get_vendors / get_customers and the search for the named party
FindParty ==
    /\ wpc = "party"
    /\ requests' = Append(requests, [op |-> IF IsExpense(tool) THEN "vendors" ELSE "customers",
                                     businessId |-> business_id[1]])
    /\ \/ \E found \in { None, Some("p1") } :
            /\ tool' = [tool EXCEPT !.party_id = found]
            /\ wpc' = "accounts"
       \/ RequestFails
    /\ UNCHANGED <<pagingVars, EXPENSE_SYNONYMS, INCOME_SYNONYMS, hashSeed, prev_result, engineVars,
                   business_id>>

\* the handler without `if not expense_account_id: return ...`
FindAccountUnchecked ==
    /\ wpc = "accounts"
    /\ requests' = Append(requests, [op |-> "accounts", businessId |-> business_id[1]])
    /\ \/ \E chart \in Charts :
            /\ user_category' = CategoryOf(tool)
            /\ accounts' = chart
            /\ account_type' = IF IsExpense(tool) THEN "Expenses" ELSE "Income"
            /\ user_context' = Some(ContextOf(tool))
            /\ IF Raises(user_category', accounts', account_type', user_context', hashSeed)
               THEN /\ result' = result
                    /\ pc' = "raised"
                    /\ RequestFails
               ELSE /\ result' = find_best_account_match(user_category', accounts',
                                      account_type', user_context', EXPENSE_SYNONYMS,
                                      INCOME_SYNONYMS, hashSeed)
                    /\ pc' = "returned"
                    /\ tool' = tool
                    /\ wpc' = "anchor"
       \/ /\ RequestFails
          /\ UNCHANGED engineVars
    /\ UNCHANGED <<pagingVars, EXPENSE_SYNONYMS, INCOME_SYNONYMS, hashSeed, prev_result, business_id>>

\* get_accounts, then find_best_account_match and the test of its account id
FindAccount ==
    /\ wpc = "accounts"
    /\ requests' = Append(requests, [op |-> "accounts", businessId |-> business_id[1]])
    /\ \/ \E chart \in Charts :
            /\ user_category' = CategoryOf(tool)
            /\ accounts' = chart
            /\ account_type' = IF IsExpense(tool) THEN "Expenses" ELSE "Income"
            /\ user_context' = Some(ContextOf(tool))
            /\ IF Raises(user_category', accounts', account_type', user_context', hashSeed)
               THEN /\ result' = result
                    /\ pc' = "raised"
                    /\ RequestFails
               ELSE /\ result' = find_best_account_match(user_category', accounts',
                                      account_type', user_context', EXPENSE_SYNONYMS,
                                      INCOME_SYNONYMS, hashSeed)
                    /\ pc' = "returned"
                    /\ IF ~Truthy(result'.accountId)
                       THEN /\ tool' = [tool EXCEPT !.response =
                                   IF IsExpense(tool) THEN "Error: No expense accounts found"
                                   ELSE "Error: No income accounts found"]
                            /\ wpc' = "done"
                       ELSE /\ tool' = tool
                            /\ wpc' = "anchor"
       \/ /\ RequestFails
          /\ UNCHANGED engineVars
    /\ UNCHANGED <<pagingVars, EXPENSE_SYNONYMS, INCOME_SYNONYMS, hashSeed, prev_result, business_id>>

\* get_anchor_accounts and the choice of the anchor account
FindAnchor ==
    /\ wpc = "anchor"
    /\ requests' = Append(requests, [op |-> "accounts", businessId |-> business_id[1]])
    /\ \/ \E anchors \in AnchorLists :
            LET i == IF Truthy(tool.payment_account)
                     THEN AnchorIndex(anchors, tool.payment_account[1]) ELSE 0
            IN  IF anchors = <<>>
                THEN /\ tool' = [tool EXCEPT !.response =
                                    IF IsExpense(tool)
                                    THEN "Error: No bank or credit card accounts found to pay from"
                                    ELSE "Error: No bank accounts found to deposit to"]
                     /\ wpc' = "done"
                ELSE IF Truthy(tool.payment_account) /\ i = 0
                THEN /\ tool' = [tool EXCEPT !.response = "Payment account not found"]
                     /\ wpc' = "done"
                ELSE /\ tool' = [tool EXCEPT !.anchor_account_id =
                                    Some(anchors[IF i = 0 THEN 1 ELSE i].id)]
                     /\ wpc' = "create"
       \/ RequestFails
    /\ UNCHANGED <<pagingVars, EXPENSE_SYNONYMS, INCOME_SYNONYMS, hashSeed, prev_result, engineVars,
                   business_id>>

\* create_expense / create_income: the moneyTransactionCreate request
CreateTransaction ==
    /\ wpc = "create"
    /\ requests' = Append(requests,
          [op |-> "moneyTransactionCreate",
           businessId |-> business_id[1],
           anchorAccountId |-> tool.anchor_account_id[1],
           direction |-> IF IsExpense(tool) THEN "WITHDRAWAL" ELSE "DEPOSIT",
           lineItemAccountId |-> result.accountId])
    /\ \/ \E didSucceed \in BOOLEAN :
            tool' = [tool EXCEPT !.response = IF didSucceed THEN "created" ELSE "failed"]
       \/ tool' = [tool EXCEPT !.response = "Error: request failed"]
    /\ wpc' = "done"
    /\ UNCHANGED <<pagingVars, EXPENSE_SYNONYMS, INCOME_SYNONYMS, hashSeed, prev_result, engineVars,
                   business_id>>

\* the handler has returned its TextContent and its locals are gone; the
\* request log starts anew for the next call
Return ==
    /\ wpc = "done"
    /\ wpc' = "idle"
    /\ tool' = NoTool
    /\ requests' = <<>>
    /\ user_category' = ""
    /\ user_context' = None
    /\ account_type' = "Expenses"
    /\ accounts' = <<>>
    /\ result' = NotReturned
    /\ pc' = "idle"
    /\ UNCHANGED <<pagingVars, EXPENSE_SYNONYMS, INCOME_SYNONYMS, hashSeed, prev_result, business_id>>

NextWorkflow ==
    \/ set_business
    \/ Invoke
    \/ InvokeLookup
    \/ Lookup
    \/ FindParty
    \/ FindAccount
    \/ FindAnchor
    \/ CreateTransaction
    \/ Return

SpecWorkflow == InitWorkflow /\ [][NextWorkflow]_vars

(***************************************************************************)
(* WaveClient.get_accounts: the pagination loop.  An action is one pass    *)
(* of the loop: the page request, its response, and the code up to the     *)
(* next request or the return.  The backend answers as it pleases: page    *)
(* contents and pageInfo are not tied to the page requested.               *)
(***************************************************************************)
\* `if page > 20`
PageLimit == 20

\* pages whose contents the backend varies; later pages carry one edge
MaxVariedPages == 2

\* edge of the chart of accounts, named by the page that carried it
Edge(p, k) == [node |-> [page |-> p, index |-> k]]

\* what accounts_response["edges"] may be for the p-th request
PageEdges(p) ==
    IF p <= MaxVariedPages
    THEN { <<>>, <<Edge(p, 1)>>, <<Edge(p, 1), Edge(p, 2)>> }
    ELSE { <<Edge(p, 1)>> }

\* what pageInfo may hold for the p-th request: a key may be missing
\* (None); the backend may report the page asked for, page 1 whatever was
\* asked, a total of 2, or a total one above the page asked for
PageInfos(p) ==
    [ currentPage : { None, Some(p), Some(1) },
      totalPages : { None, Some(2), Some(p + 1) } ]

\* dict.get(key, default) on a value that is present or missing
GetOr(value, default) == IF value = None THEN default ELSE value[1]

\* the safety check one page later
PastLimitLate(p) == p > PageLimit + 1

\* the safety check after `page += 1`
PastLimit(p) == p > PageLimit

InitPages ==
    /\ EXPENSE_SYNONYMS = ExpenseSynonymTable
    /\ INCOME_SYNONYMS = IncomeSynonymTable
    /\ hashSeed \in HashSeeds
    /\ user_category = ""
    /\ user_context = None
    /\ account_type = "Expenses"
    /\ accounts = <<>>
    /\ result = NotReturned
    /\ prev_result = NotReturned
    /\ pc = "idle"
    /\ business_id \in { Some(b) : b \in BusinessIds }
    /\ tool = NoTool
    /\ wpc = "idle"
    /\ requests = <<>>
    /\ NotPaging

\* everything but the request log and the locals of get_accounts
notPagingVars == <<EXPENSE_SYNONYMS, INCOME_SYNONYMS, hashSeed, user_category, user_context,
                   account_type, accounts, result, prev_result, pc, business_id, tool, wpc>>

\* get_accounts is called: all_accounts = [], page = 1
CallGetAccounts ==
    /\ gpc = "idle"
    /\ all_accounts' = <<>>
    /\ page' = 1
    /\ page_info' = NoPageInfo
    /\ gpc' = "loop"
    /\ UNCHANGED <<notPagingVars, requests>>

\* one pass of `while True`: the request either raises or is answered; the
\* edges are appended, pageInfo is read with its defaults, and the loop
\* ends at currentPage >= totalPages or past the page limit
FetchPage ==
    /\ gpc = "loop"
    /\ \/ \E edges \in PageEdges(page), info \in PageInfos(page) :
            LET current_page == GetOr(info.currentPage, page)
                total_pages == GetOr(info.totalPages, 1)
            IN  /\ requests' = Append(requests, [op |-> "accounts",
                                                 businessId |-> business_id[1],
                                                 page |-> page,
                                                 edges |-> Some(edges)])
                /\ all_accounts' = all_accounts \o edges
                /\ page_info' = [current_page |-> current_page, total_pages |-> total_pages]
                /\ IF current_page >= total_pages
                   THEN /\ page' = page
                        /\ gpc' = "returned"
                   ELSE /\ page' = page + 1
                        /\ gpc' = IF PastLimit(page + 1) THEN "returned" ELSE "loop"
       \/ /\ requests' = Append(requests, [op |-> "accounts",
                                           businessId |-> business_id[1],
                                           page |-> page,
                                           edges |-> None])
          /\ gpc' = "raised"
          /\ UNCHANGED <<page, all_accounts, page_info>>
    /\ UNCHANGED notPagingVars

NextPages == CallGetAccounts \/ FetchPage

SpecPages == InitPages /\ [][NextPages]_vars

\* a request is answered or fails (the client's 30 s timeout), and the
\* code between two requests does not block
SpecPagesFair == SpecPages /\ WF_vars(FetchPage)

(***************************************************************************)
(* Properties                                                              *)
(***************************************************************************)
\* the current engine call has returned
Returned == pc \in {"returned", "repeated"}

\* filtered_accounts of the current call
Filtered == FilteredAccounts(accounts, account_type)

\* some extracted numeric token occurs in the name of a filtered account
\* whose name also contains "rental"
RentalTokenHit ==
    \E t \in ApartmentNumberSet(user_category, user_context) :
        \E i \in 1..Len(Filtered) :
            /\ Contains(t, Lower(Filtered[i].name))
            /\ Contains("rental", Lower(Filtered[i].name))

\* account a satisfies one of Stage 1's sub-rules for the current category
Stage1Hit(a) ==
    LET label == Strip(Lower(user_category))
    IN  \/ Stage1Substring(label, a)
        \/ Stage1Prefix(label, a)
        \/ Stage1CategoryPrefix(label, a)

\* C1 as stated: for every call, whatever the category label, a non-empty
\* filtered account list gives a result with a populated accountId
C1_PopulatedWheneverCandidates ==
    (Returned /\ Filtered # <<>>) => result.accountId # None

\* C1 amended: for every call with a non-empty category label, a non-empty
\* filtered account list gives a result with a populated accountId (an
\* empty label returns accountId = None before the list is looked at)
C1_PopulatedForNonEmptyLabel ==
    (Returned /\ user_category # "" /\ Filtered # <<>>) => result.accountId # None

\* C1 witness: a call decided by the last fallback rule, at score 0.1
C1_Witness ==
    /\ Returned /\ user_category # "" /\ Filtered # <<>>
    /\ result.accountId # None
    /\ ScoreEq(result.score, Rat(1, 10))

\* C2: a returned accountId is the id of a non-archived account of the
\* supplied candidate list (and the returned name is that account's name)
C2_ReturnedAccountIsLive ==
    (Returned /\ result.accountId # None) =>
        \E i \in 1..Len(accounts) :
            /\ accounts[i].id = result.accountId[1]
            /\ result.accountName = Some(accounts[i].name)
            /\ ~accounts[i].isArchived

\* C2 witness: the list holds an archived account of the requested type
\* whose name contains the label, and another account was returned
C2_Witness ==
    /\ Returned /\ result.accountId # None
    /\ \E i \in 1..Len(accounts) :
          /\ accounts[i].isArchived
          /\ accounts[i].type = account_type
          /\ Contains(Strip(Lower(user_category)), Lower(accounts[i].name))
          /\ accounts[i].id # result.accountId[1]

\* C3: when the catalog filter runs (the category is not empty) and yields
\* an empty list, the result is (None, None, 0.0, explanation) and the
\* explanation names the lower-cased account class
C3_NoCandidatesResult ==
    (Returned /\ user_category # "" /\ Filtered = <<>>) =>
        /\ result.accountId = None
        /\ result.accountName = None
        /\ ScoreEq(result.score, Rat(0, 1))
        /\ StartsWith(result.explanation, "No " \o Lower(account_type) \o " accounts found.")

\* C3 witness: an Income call over a list holding only Expenses accounts
C3_Witness ==
    /\ Returned /\ user_category # "" /\ Filtered = <<>>
    /\ account_type = "Income"
    /\ accounts # <<>>
    /\ result.accountId = None

\* C4 as stated: a label equal, case-insensitively, to the full name of a
\* filtered account A returns A at score 1.0, whatever else is in the list
C4_ExactNameWins ==
    Returned =>
        \A i \in 1..Len(Filtered) :
            Lower(Filtered[i].name) = Lower(user_category) =>
                /\ result.accountId = Some(Filtered[i].id)
                /\ result.accountName = Some(Filtered[i].name)
                /\ ScoreEq(result.score, Rat(1, 1))

\* C4 amended: a non-empty label equal, case-insensitively, to the full
\* name of a filtered account A returns A at score 1.0 provided Stage 0
\* does not decide the call (the query is not Income, or no numeric token
\* occurs in a filtered "rental" name) and no account before A in the
\* filtered list satisfies a Stage 1 sub-rule
C4_ExactNameWinsIfFirst ==
    (Returned /\ user_category # "") =>
        \A i \in 1..Len(Filtered) :
            ( /\ Lower(Filtered[i].name) = Lower(user_category)
              /\ ~(account_type = "Income" /\ RentalTokenHit)
              /\ \A j \in 1..(i - 1) : ~Stage1Hit(Filtered[j]) ) =>
                /\ result.accountId = Some(Filtered[i].id)
                /\ result.accountName = Some(Filtered[i].name)
                /\ ScoreEq(result.score, Rat(1, 1))

\* C4 witness: the label differs from A's name in case only, A is second
\* in the filtered list and is returned at 1.0
C4_Witness ==
    /\ Returned
    /\ Len(Filtered) = 2
    /\ Lower(Filtered[2].name) = Lower(user_category)
    /\ Filtered[2].name # user_category
    /\ result.accountId = Some(Filtered[2].id)
    /\ ScoreEq(result.score, Rat(1, 1))

\* C5: for an Income query in which a numeric token extracted from label
\* and context occurs in a filtered "rental" account name, Stage 0 decides
\* (score 0.98, apartment-specific explanation), also when the label is a
\* substring of a filtered account's name
C5_Stage0BeforeStage1 ==
    (Returned /\ user_category # "" /\ account_type = "Income" /\ RentalTokenHit) =>
        /\ ScoreEq(result.score, Rat(98, 100))
        /\ StartsWith(result.explanation, "Apartment-specific match: ")

\* C5 witness: Stage 0 decided although the label is a substring of the
\* name of the first filtered account, which is not the account returned
C5_Witness ==
    /\ Returned /\ account_type = "Income" /\ RentalTokenHit
    /\ Len(Filtered) = 2
    /\ Stage1Substring(Strip(Lower(user_category)), Filtered[1])
    /\ result.accountId = Some(Filtered[2].id)
    /\ ScoreEq(result.score, Rat(98, 100))
\* C6 as stated: a second call with the same label, context, account class
\* and candidate list returns the same tuple as the first
C6_Deterministic == pc = "repeated" => result = prev_result

IsCreate(r) == r.op = "moneyTransactionCreate"

\* C8: a transaction-creation request is sent only after the engine
\* returned a populated accountId, and carries that id as its line item's
\* accountId; when the engine returned None the workflow has ended with the
\* "No ... accounts found" error and has sent no such request
C8_TransactionOnlyWithAccount ==
    /\ \A i \in 1..Len(requests) :
          IsCreate(requests[i]) =>
              /\ pc = "returned"
              /\ result.accountId # None
              /\ requests[i].lineItemAccountId = result.accountId
    /\ (pc = "returned" /\ result.accountId = None) =>
          /\ wpc = "done"
          /\ tool.response \in { "Error: No expense accounts found",
                                 "Error: No income accounts found" }
          /\ \A i \in 1..Len(requests) : ~IsCreate(requests[i])

\* C8 witness: the income workflow has sent its transaction with the
\* account the engine resolved
C8_Witness ==
    /\ wpc = "done"
    /\ tool.name = "create_income_from_payment"
    /\ result.accountId # None
    /\ \E i \in 1..Len(requests) :
          IsCreate(requests[i]) /\ requests[i].lineItemAccountId = result.accountId

\* C9: every result carries a non-empty explanation
C9_ExplanationNonEmpty == Returned => result.explanation # ""

\* C9 witness: a result accepted by Stage 2, whose explanation is the
\* running best_explanation
C9_Witness ==
    /\ Returned
    /\ ScoreLe(Rat(6, 10), result.score)
    /\ \/ StartsWith(result.explanation, "Word match: ")
       \/ StartsWith(result.explanation, "Synonym match: ")
       \/ StartsWith(result.explanation, "Direct fuzzy match ")

\* C10: every result's score lies in [0, 1]
C10_ScoreInUnitInterval ==
    Returned =>
        /\ result.score.den > 0
        /\ 0 <= result.score.num
        /\ result.score.num <= result.score.den

\* C10 witness: a result whose score is a similarity ratio, not a literal
C10_Witness ==
    /\ Returned
    /\ result.accountId # None
    /\ ScoreLt(Rat(3, 10), result.score)
    /\ ScoreLt(result.score, Rat(6, 10))

\* C11: a call never ends in an exception: once it has ended it has
\* returned a tuple (accountId, accountName, score, explanation)
C11_EngineAlwaysReturns ==
    /\ pc \in {"called", "returned"}
    /\ pc = "returned" =>
          DOMAIN result = {"accountId", "accountName", "score", "explanation"}

\* C11 witness: Stage 1 passed over a filtered account whose name has no
\* word (sub-rule c's guard saved words_in_account[0]) and the call
\* returned an account
C11_Witness ==
    /\ Returned
    /\ user_category # ""
    /\ Filtered # <<>>
    /\ Split(Lower(Filtered[1].name)) = <<>>
    /\ ~Stage1Substring(Strip(Lower(user_category)), Filtered[1])
    /\ result.accountId # None

\* the synonym dict of the current call
SynonymsOfCall == IF account_type = "Expenses" THEN EXPENSE_SYNONYMS ELSE INCOME_SYNONYMS

\* Stage 0 or Stage 1 decides the current call
EarlyStageFires ==
    \/ account_type = "Income" /\ RentalTokenHit
    \/ \E i \in 1..Len(Filtered) : Stage1Hit(Filtered[i])

\* the current category is a key or a listed synonym of an entry of the
\* call's dict, and a filtered account's name contains that entry's key or
\* one of its synonyms
SynonymReachesAccount ==
    \E k \in 1..Len(SynonymsOfCall) :
        /\ \/ Strip(Lower(user_category)) = SynonymsOfCall[k].key
           \/ InList(Strip(Lower(user_category)), SynonymsOfCall[k].synonyms)
        /\ \E i \in 1..Len(Filtered) :
              \/ Contains(SynonymsOfCall[k].key, Lower(Filtered[i].name))
              \/ \E j \in 1..Len(SynonymsOfCall[k].synonyms) :
                    Contains(SynonymsOfCall[k].synonyms[j], Lower(Filtered[i].name))

\* the result was returned by Stage 2's accept
FromStage2Accept ==
    \/ StartsWith(result.explanation, "Direct fuzzy match ")
    \/ StartsWith(result.explanation, "Word match: ")
    \/ StartsWith(result.explanation, "Synonym match: ")

\* C12: a category related to a dict entry whose key or synonym occurs in a
\* filtered account's name, with Stages 0 and 1 silent, is answered by
\* Stage 2 with a populated account at a score of at least 0.85
C12_SynonymHitAccepted ==
    (Returned /\ user_category # "" /\ ~EarlyStageFires /\ SynonymReachesAccount) =>
        /\ result.accountId # None
        /\ FromStage2Accept
        /\ ScoreLe(Rat(85, 100), result.score)

\* C12 witness: "food" against a sole Expenses account "Meals &
\* Entertainment" returns that account by a synonym match
C12_Witness ==
    /\ Returned /\ ~EarlyStageFires /\ SynonymReachesAccount
    /\ user_category = "food"
    /\ Len(Filtered) = 1
    /\ result.accountName = Some("Meals & Entertainment")
    /\ StartsWith(result.explanation, "Synonym match: ")

\* best_match, best_score, best_explanation of the current call after the
\* Stage 2 loops
Stage2Best ==
    Stage2(NoBest, user_category, Strip(Lower(user_category)), Filtered, SynonymsOfCall)

\* the keywords Stage 3 collects for the current category
KeywordsOfCall == RelevantKeywords(Strip(Lower(user_category)), SynonymsOfCall)

\* some filtered account's name contains a keyword of the current category
KeywordHit ==
    \E i \in 1..Len(Filtered) : \E k \in 1..Len(KeywordsOfCall) :
        Contains(KeywordsOfCall[k], Lower(Filtered[i].name))

\* the rental rule applies and some filtered account has no avoided term
RentalRuleHit ==
    /\ Strip(Lower(user_category)) \in {"rent", "rental", "property"}
    /\ Len(Filtered) > 1
    /\ \E i \in 1..Len(Filtered) : \A k \in 1..Len(avoid_terms) :
          ~Contains(avoid_terms[k], Lower(Filtered[i].name))

\* no stage and no earlier fallback rule decides the current call
OnlyFinalFallbackLeft ==
    /\ user_category # ""
    /\ Filtered # <<>>
    /\ ~EarlyStageFires
    /\ ScoreLe(Stage2Best.score, Rat(3, 10))
    /\ ~KeywordHit
    /\ ~RentalRuleHit

\* C13: when nothing else decides, the result is the first filtered
\* account at score 0.1, and its explanation carries the "Only one ...
\* account found" warning exactly when one account was filtered
C13_FinalFallbackFirstAccount ==
    (Returned /\ OnlyFinalFallbackLeft) =>
        /\ result.accountId = Some(Filtered[1].id)
        /\ result.accountName = Some(Filtered[1].name)
        /\ ScoreEq(result.score, Rat(1, 10))
        /\ Contains("WARNING: Only one", result.explanation) <=> Len(Filtered) = 1

\* C13 witness: the final fallback over two filtered accounts returns the
\* first, without the warning
C13_Witness ==
    /\ Returned /\ OnlyFinalFallbackLeft
    /\ Len(Filtered) = 2
    /\ result.accountId = Some(Filtered[1].id)
    /\ StartsWith(result.explanation, "No good match for '")
    /\ ~Contains("WARNING", result.explanation)

\* account a satisfies strategy k of the filter for the current query
\* (strategies 3 and 4 exist for Income queries only)
Satisfies(k, a) ==
    CASE k = 1 -> a.type = account_type
      [] k = 2 -> Lower(a.type) = Lower(account_type)
      [] k = 3 -> account_type = "Income"
                  /\ a.type \in {"Income", "INCOME", "Revenue", "REVENUE", "income"}
      [] k = 4 -> account_type = "Income"
                  /\ a.subtype \in {"INCOME", "REVENUE", "SALES", "OTHER_INCOME"}

\* the strategies some non-archived account of the call satisfies
LiveStrategies ==
    { k \in 1..4 : \E i \in 1..Len(accounts) :
                      ~accounts[i].isArchived /\ Satisfies(k, accounts[i]) }

\* the lowest-numbered of them
LowestStrategy == CHOOSE k \in LiveStrategies : \A m \in LiveStrategies : k <= m

\* account a is non-archived and satisfies the lowest live strategy
IsCandidate(a) ==
    LiveStrategies # {} /\ ~a.isArchived /\ Satisfies(LowestStrategy, a)

\* C14: the filtered list is exactly the non-archived accounts, in input
\* order, that satisfy the lowest-numbered strategy satisfied by some
\* non-archived account, and a returned account is one of them
C14_FilterIsLowestStrategy ==
    (Returned /\ user_category # "") =>
        /\ Filtered = SelectSeq(accounts, IsCandidate)
        /\ result.accountId # None =>
              \E i \in 1..Len(accounts) :
                  IsCandidate(accounts[i]) /\ result.accountId = Some(accounts[i].id)

\* C14 witness: an Income query over a type "Income" account and a type
\* "INCOME" account keeps the first alone, in either input order
C14_Witness ==
    /\ Returned /\ user_category # "" /\ account_type = "Income"
    /\ Len(accounts) = 2
    /\ accounts[1].type = "INCOME" /\ ~accounts[1].isArchived
    /\ accounts[2].type = "Income" /\ ~accounts[2].isArchived
    /\ Filtered = <<accounts[2]>>
    /\ result.accountId = Some(accounts[2].id)

\* account a is non-archived and its type name is the Expense literal,
\* exactly or case-insensitively
ExpenseTyped(a) == ~a.isArchived /\ Lower(a.type) = "expenses"

\* C15: in an Expense query every candidate is a non-archived account
\* whose type name is "Expenses" up to case, and without such an account
\* the call returns the no-candidates result, whatever the subtypes
C15_ExpenseQueryIgnoresIncomeStrategies ==
    (Returned /\ user_category # "" /\ account_type = "Expenses") =>
        /\ \A i \in 1..Len(Filtered) : ExpenseTyped(Filtered[i])
        /\ result.accountId # None =>
              \E i \in 1..Len(accounts) :
                  ExpenseTyped(accounts[i]) /\ result.accountId = Some(accounts[i].id)
        /\ (\A i \in 1..Len(accounts) : ~ExpenseTyped(accounts[i])) =>
              result = MatchResult(None, None, Rat(0, 1), "No expenses accounts found.")

\* C15 witness: an Expense query over accounts of the Income alias set and
\* of an income-like subtype finds no candidate
C15_Witness ==
    /\ Returned /\ user_category # "" /\ account_type = "Expenses"
    /\ Len(accounts) = 2
    /\ accounts[1].type = "Revenue" /\ ~accounts[1].isArchived
    /\ accounts[2].subtype = "OTHER_INCOME" /\ ~accounts[2].isArchived
    /\ result.accountId = None
    /\ result.explanation = "No expenses accounts found."

\* the result was returned by Stage 0
FromStage0 == StartsWith(result.explanation, "Apartment-specific match: ")

\* account a qualifies for numeric token t in Stage 0
Qualifies(t, a) == Contains(t, Lower(a.name)) /\ Contains("rental", Lower(a.name))

\* the numeric tokens of the current call in the order the process
\* iterates them
NumbersOfCall == ApartmentNumbers(user_category, user_context, hashSeed)

\* Stage 0 returned the i-th filtered account for the n-th token
Stage0Chose(n, i) ==
    /\ result.accountId = Some(Filtered[i].id)
    /\ result.explanation = "Apartment-specific match: Found apartment " \o NumbersOfCall[n]
                            \o " in '" \o Filtered[i].name \o "'"

\* C16: a Stage 0 result is an account whose lower-cased name contains the
\* deciding token and "rental", no earlier filtered account qualifies for
\* that token, and no earlier token has a qualifying account at all
\* (tokens are the outer loop, accounts the inner loop)
C16_Stage0FirstQualifyingAccount ==
    (Returned /\ FromStage0) =>
        \E n \in 1..Len(NumbersOfCall) : \E i \in 1..Len(Filtered) :
            /\ Stage0Chose(n, i)
            /\ Qualifies(NumbersOfCall[n], Filtered[i])
            /\ \A j \in 1..(i - 1) : ~Qualifies(NumbersOfCall[n], Filtered[j])
            /\ \A m \in 1..(n - 1) : \A j \in 1..Len(Filtered) :
                  ~Qualifies(NumbersOfCall[m], Filtered[j])

\* C16 witness: Stage 0 returned the second filtered account for the first
\* token although the first account qualifies for the second token
C16_Witness ==
    /\ Returned /\ FromStage0
    /\ Len(NumbersOfCall) = 2 /\ Len(Filtered) = 2
    /\ Stage0Chose(1, 2)
    /\ Qualifies(NumbersOfCall[2], Filtered[1])

\* the result was returned by Stage 1
FromStage1 ==
    \/ StartsWith(result.explanation, "Exact substring match: ")
    \/ StartsWith(result.explanation, "Prefix match: ")
    \/ StartsWith(result.explanation, "Category prefix match: ")

\* the result was returned by one of Stage 3's four rules
FromStage3 ==
    \/ StartsWith(result.explanation, "Best available match (low confidence): ")
    \/ StartsWith(result.explanation, "Fallback match: ")
    \/ StartsWith(result.explanation, "Smart fallback: ")
    \/ StartsWith(result.explanation, "No good match for '")

\* C17: an Expense query is never decided by Stage 0; over a non-empty
\* filtered list its result comes from Stage 1, 2 or 3
C17_Stage0SkippedForExpenses ==
    (Returned /\ account_type = "Expenses") =>
        /\ ~FromStage0
        /\ (user_category # "" /\ Filtered # <<>>) =>
              (FromStage1 \/ FromStage2Accept \/ FromStage3)

\* C17 witness: an Expense query whose numeric token occurs in the name of
\* a filtered account that contains "rental" was answered by a later stage
C17_Witness ==
    /\ Returned /\ account_type = "Expenses"
    /\ user_category # ""
    /\ RentalTokenHit
    /\ result.accountId # None
    /\ ~FromStage0

\* the score of the first Stage 1 sub-rule account a satisfies
Stage1ScoreOf(a) ==
    IF Stage1Substring(Strip(Lower(user_category)), a) THEN Rat(1, 1)
    ELSE IF Stage1Prefix(Strip(Lower(user_category)), a) THEN Rat(95, 100)
    ELSE Rat(92, 100)

\* Stage 0 decides the current call
Stage0Fires == account_type = "Income" /\ RentalTokenHit

\* C18: when Stage 0 is silent and some filtered account satisfies a
\* Stage 1 sub-rule, the result is the first such account in input order,
\* scored by the first sub-rule that account satisfies, whatever later
\* accounts satisfy; and a Stage 1 result arises in no other way
C18_Stage1AccountMajor ==
    (Returned /\ user_category # "") =>
        /\ FromStage1 <=>
              (~Stage0Fires /\ \E i \in 1..Len(Filtered) : Stage1Hit(Filtered[i]))
        /\ FromStage1 =>
              \E i \in 1..Len(Filtered) :
                  /\ Stage1Hit(Filtered[i])
                  /\ \A j \in 1..(i - 1) : ~Stage1Hit(Filtered[j])
                  /\ result.accountId = Some(Filtered[i].id)
                  /\ result.accountName = Some(Filtered[i].name)
                  /\ ScoreEq(result.score, Stage1ScoreOf(Filtered[i]))

\* C18 witness: the first account satisfies sub-rule c only and was
\* returned at 0.92 although the second satisfies sub-rule a
C18_Witness ==
    /\ Returned /\ FromStage1
    /\ Len(Filtered) = 2
    /\ ~Stage1Substring(Strip(Lower(user_category)), Filtered[1])
    /\ Stage1Substring(Strip(Lower(user_category)), Filtered[2])
    /\ result.accountId = Some(Filtered[1].id)
    /\ ScoreEq(result.score, Rat(92, 100))

\* the highest candidate score of account a alone for the current category
\* (whole-name ratio, per-word ratios, synonym scores)
AccountScore(a) ==
    Stage2(NoBest, user_category, Strip(Lower(user_category)), <<a>>, SynonymsOfCall).score

\* the result carries Stage 2's best match: accepted, or returned by
\* Stage 3's first rule as a low-confidence match
FromStage2Best ==
    \/ FromStage2Accept
    \/ StartsWith(result.explanation, "Best available match (low confidence): ")

\* C19: the account Stage 2 selects is the earliest filtered account whose
\* highest candidate score equals the maximum over all filtered accounts;
\* every earlier account scores strictly less, and the score returned is
\* that maximum
C19_Stage2EarliestMaximum ==
    (Returned /\ FromStage2Best) =>
        \E i \in 1..Len(Filtered) :
            /\ result.accountId = Some(Filtered[i].id)
            /\ ScoreEq(result.score, AccountScore(Filtered[i]))
            /\ \A j \in 1..Len(Filtered) :
                  ScoreLe(AccountScore(Filtered[j]), AccountScore(Filtered[i]))
            /\ \A j \in 1..(i - 1) :
                  ScoreLt(AccountScore(Filtered[j]), AccountScore(Filtered[i]))

\* C19 witness: two filtered accounts with the same highest candidate
\* score, the first of them returned
C19_Witness ==
    /\ Returned /\ FromStage2Best
    /\ Len(Filtered) = 2
    /\ ScoreEq(AccountScore(Filtered[1]), AccountScore(Filtered[2]))
    /\ result.accountId = Some(Filtered[1].id)

\* Stages 0 and 1 are silent on a non-empty category and filtered list
ReachesStage2 ==
    Returned /\ user_category # "" /\ Filtered # <<>> /\ ~EarlyStageFires

\* the result names Stage 2's best account and carries its score
IsBestAccountAndScore ==
    /\ Stage2Best.match # None
    /\ result.accountId = Some(Stage2Best.match[1].id)
    /\ ScoreEq(result.score, Stage2Best.score)

\* C20 as stated: with Stages 0 and 1 silent, the result is Stage 2's best
\* account with its score unchanged if and only if the best score is at
\* least 0.6, and a Stage 3 result arises only below 0.6
C20_BestReturnedIffAccepted ==
    ReachesStage2 =>
        /\ IsBestAccountAndScore <=> ScoreLe(Rat(6, 10), Stage2Best.score)
        /\ FromStage3 => ScoreLt(Stage2Best.score, Rat(6, 10))

\* C20 amended: with Stages 0 and 1 silent, the result is Stage 2's best
\* account with its score and explanation unchanged if and only if the
\* best score is at least 0.6; otherwise the result is a Stage 3 result,
\* whose first rule (best score above 0.3) also returns Stage 2's best
\* account at its score, under a low-confidence explanation
C20_AcceptedIffAtLeastThreshold ==
    ReachesStage2 =>
        /\ (IsBestAccountAndScore /\ result.explanation = Stage2Best.explanation)
              <=> ScoreLe(Rat(6, 10), Stage2Best.score)
        /\ FromStage3 <=> ScoreLt(Stage2Best.score, Rat(6, 10))
        /\ (ScoreLt(Rat(3, 10), Stage2Best.score) /\ ScoreLt(Stage2Best.score, Rat(6, 10))) =>
              /\ IsBestAccountAndScore
              /\ StartsWith(result.explanation, "Best available match (low confidence): ")

\* C20 witness: a best score of exactly 0.6 was accepted
C20_Witness ==
    /\ ReachesStage2
    /\ ScoreEq(Stage2Best.score, Rat(6, 10))
    /\ IsBestAccountAndScore
    /\ result.explanation = Stage2Best.explanation

\* the names of the first min(3, n) filtered accounts, separated by ", "
ListedNames ==
    IF Len(Filtered) = 1 THEN Filtered[1].name
    ELSE IF Len(Filtered) = 2 THEN Filtered[1].name \o ", " \o Filtered[2].name
    ELSE Filtered[1].name \o ", " \o Filtered[2].name \o ", " \o Filtered[3].name

\* Stage 2's best score lies strictly between 0.3 and 0.6
InLowConfidenceBand ==
    ScoreLt(Rat(3, 10), Stage2Best.score) /\ ScoreLt(Stage2Best.score, Rat(6, 10))

\* the result for Stage 2's best match `best`: for a score strictly
\* between 0.3 and 0.6 the low-confidence result with the listed names; for
\* a score of exactly 0.3 a result of one of the later rules
LowConfidenceResult(best, listed) ==
    /\ (ScoreLt(Rat(3, 10), best.score) /\ ScoreLt(best.score, Rat(6, 10))) =>
          /\ best.match # None
          /\ result.accountId = Some(best.match[1].id)
          /\ ScoreEq(result.score, best.score)
          /\ result.accountName = Some(best.match[1].name)
          /\ result.explanation =
                "Best available match (low confidence): " \o best.explanation
                \o ". Available accounts: " \o listed
    /\ ScoreEq(best.score, Rat(3, 10)) =>
          /\ ~StartsWith(result.explanation, "Best available match")
          /\ \/ ScoreEq(result.score, Rat(5, 10))
             \/ ScoreEq(result.score, Rat(2, 10))
             \/ ScoreEq(result.score, Rat(1, 10))

\* C21: with Stages 0 and 1 silent and Stage 2's best score strictly
\* between 0.3 and 0.6, the result is Stage 2's best account at that same
\* score, its explanation the low-confidence label, Stage 2's explanation
\* and the names of the first min(3, n) filtered accounts; at a best score
\* of exactly 0.3 the result is not the low-confidence one but carries one
\* of the later rules' fixed scores
C21_LowConfidenceBand ==
    ReachesStage2 => LowConfidenceResult(Stage2Best, ListedNames)

\* C21 witness: four filtered accounts, the fourth returned as the
\* low-confidence match at a score in the band, so that its own name is
\* not among the three the explanation lists
C21_Witness ==
    /\ ReachesStage2
    /\ InLowConfidenceBand
    /\ Len(Filtered) = 4
    /\ result.accountId = Some(Filtered[4].id)
    /\ ~Contains(Filtered[4].name, result.explanation)

\* the lower-cased name of account a contains a term of the denylist
HasAvoidedTerm(a) ==
    \E t \in {"foreign", "exchange", "gain", "loss", "interest", "dividend"} :
        Contains(t, Lower(a.name))

\* the fallback's rental rule is reached: no stage, no low-confidence match
\* and no keyword match decides, the label is rental-like and more than
\* one account is filtered
RentalRuleReached ==
    /\ Strip(Lower(user_category)) \in {"rent", "rental", "property"}
    /\ Len(Filtered) > 1
    /\ ReachesStage2
    /\ ~KeywordHit
    /\ ScoreLe(Stage2Best.score, Rat(3, 10))

\* C22: when the rental rule is reached the result is the first filtered
\* account, in input order, whose name has no denylist term, at 0.2, or the
\* first filtered account at 0.1 when every name has one; and no result at
\* 0.2 names an account with a denylist term
C22_RentalRuleSkipsDenylist ==
    /\ RentalRuleReached =>
          IF \E i \in 1..Len(Filtered) : ~HasAvoidedTerm(Filtered[i])
          THEN \E i \in 1..Len(Filtered) :
                  /\ ~HasAvoidedTerm(Filtered[i])
                  /\ \A j \in 1..(i - 1) : HasAvoidedTerm(Filtered[j])
                  /\ result.accountId = Some(Filtered[i].id)
                  /\ result.accountName = Some(Filtered[i].name)
                  /\ ScoreEq(result.score, Rat(2, 10))
          ELSE /\ result.accountId = Some(Filtered[1].id)
               /\ result.accountName = Some(Filtered[1].name)
               /\ ScoreEq(result.score, Rat(1, 10))
    /\ (Returned /\ ScoreEq(result.score, Rat(2, 10))) =>
          \A i \in 1..Len(Filtered) :
              result.accountId = Some(Filtered[i].id) => ~HasAvoidedTerm(Filtered[i])

\* C22 witness: the first filtered account has a denylist term and the
\* second, which has none, was returned at 0.2
C22_Witness ==
    /\ RentalRuleReached
    /\ HasAvoidedTerm(Filtered[1])
    /\ ~HasAvoidedTerm(Filtered[2])
    /\ result.accountId = Some(Filtered[2].id)
    /\ ScoreEq(result.score, Rat(2, 10))

\* the lower-cased label followed by a space and the context of the call
TextOfCall ==
    Lower(user_category \o " " \o (IF user_context = None THEN "" ELSE user_context[1]))

\* the matches of the k-th entry of number_patterns over the call's text
MatchesOfPattern(k) ==
    CASE k = 1 -> PatternApartmentRange(TextOfCall)
      [] k = 2 -> PatternWordNumber(TextOfCall, "apartment")
      [] k = 3 -> PatternWordNumber(TextOfCall, "unit")
      [] k = 4 -> PatternThreeDigits(TextOfCall)

\* the matches of the four entries of number_patterns, in list order
PatternMatches ==
    <<MatchesOfPattern(1), MatchesOfPattern(2), MatchesOfPattern(3), MatchesOfPattern(4)>>

RECURSIVE MergedInOrder(_, _)
\* the elements of apartment_numbers after it was extended with the
\* matches of the patterns taken in the given order
MergedInOrder(matches, order) ==
    IF order = <<>> THEN {}
    ELSE MergedInOrder(matches, SubSeq(order, 1, Len(order) - 1))
         \cup matches[order[Len(order)]]

\* the orders in which four patterns can be applied
PatternOrders == { o \in [1..4 -> 1..4] : \A i, j \in 1..4 : i # j => o[i] # o[j] }

\* list(set(apartment_numbers)) of the current call
NumbersList == ApartmentNumbers(user_category, user_context, hashSeed)

\* numbers holds each element of the patterns' matches merged in list
\* order once, and every order of merging gives the same set
TokenSetIsUnion(matches, numbers) ==
    /\ { numbers[i] : i \in 1..Len(numbers) } = MergedInOrder(matches, <<1, 2, 3, 4>>)
    /\ \A i, j \in 1..Len(numbers) : i # j => numbers[i] # numbers[j]
    /\ \A o \in PatternOrders :
          MergedInOrder(matches, o) = MergedInOrder(matches, <<1, 2, 3, 4>>)

RECURSIVE EdgesFetched(_)
\* the edges of the answered requests of a log, in the order of the requests
EdgesFetched(log) ==
    IF log = <<>> THEN <<>>
    ELSE EdgesFetched(SubSeq(log, 1, Len(log) - 1))
         \o (IF log[Len(log)].edges = None THEN <<>> ELSE log[Len(log)].edges[1])

\* get_accounts has ended, by its return statement or by an exception
PagingEnded == gpc \in {"returned", "raised"}

\* the requests are for pages 1, 2, ... and never more than the limit; the
\* loop goes on only after a response with currentPage < totalPages; the
\* function returns only at currentPage >= totalPages or at the limit, and
\* then with the edges of all pages fetched, in fetch order
PagingSafe ==
    /\ Len(requests) <= PageLimit
    /\ \A i \in 1..Len(requests) : requests[i].page = i
    /\ (gpc = "loop" /\ requests # <<>>) =>
          page_info.current_page < page_info.total_pages
    /\ gpc = "returned" =>
          /\ \/ page_info.current_page >= page_info.total_pages
             \/ Len(requests) = PageLimit
          /\ all_accounts = EdgesFetched(requests)

\* C24: the pagination loop of get_accounts ends whatever the backend
\* answers: it issues at most 20 page requests, goes on only while the
\* last response reported currentPage < totalPages, and returns the
\* concatenation of the pages fetched, in fetch order
C24_PaginationTerminates ==
    /\ []PagingSafe
    /\ (gpc = "loop") ~> PagingEnded

\* C24 witness: the loop was ended by the page limit: twenty requests, the
\* last response still reporting more pages
C24_Witness ==
    /\ gpc = "returned"
    /\ Len(requests) = PageLimit
    /\ page_info.current_page < page_info.total_pages
    /\ all_accounts = EdgesFetched(requests)

\* the reply of a guarded branch of handle_call_tool without a business
NoBusinessSelected == "Error: No business selected. Use set_business tool first."

\* a step that enters a tool's branch of handle_call_tool
ToolEntered == wpc = "idle" /\ wpc' # "idle"

\* the tool entered is refused: the error is its reply and nothing was sent
Refused == wpc' = "done" /\ tool'.response = NoBusinessSelected /\ requests' = <<>>

\* a step of set_business that changes the selection
SelectionChanged == business_id' # business_id

\* C25 as stated: a tool other than set_business and list_businesses that
\* is entered while no business is selected replies with the error and
\* sends nothing, list_businesses proceeds, and after every set_business
\* the other tools are enabled
C25_GuardUntilSetBusiness ==
    [][/\ (ToolEntered /\ ~Truthy(business_id) /\ NeedsBusiness(tool')) => Refused
       /\ (ToolEntered /\ ~NeedsBusiness(tool')) => wpc' = "lookup"
       /\ SelectionChanged => Truthy(business_id')]_vars

\* C25 amended: a tool other than set_business and list_businesses that is
\* entered while no business is selected replies with the error and sends
\* nothing; list_businesses proceeds without a business; a tool entered
\* with a business selected proceeds; set_business stores its argument as
\* given, so the other tools are enabled after it exactly when the id it
\* was given is not empty
C25_GuardUntilNonEmptyBusiness ==
    [][/\ (ToolEntered /\ ~Truthy(business_id) /\ NeedsBusiness(tool')) => Refused
       /\ (ToolEntered /\ ~NeedsBusiness(tool')) => wpc' = "lookup"
       /\ (ToolEntered /\ Truthy(business_id)) => ~Refused /\ wpc' # "done"
       /\ SelectionChanged =>
             /\ business_id' \in { Some(b) : b \in BusinessIdArguments }
             /\ Truthy(business_id') <=> business_id'[1] \in BusinessIds]_vars

\* C25 witness: debug_accounts was refused, nothing sent, after a
\* set_business with the empty id
C25_Witness ==
    /\ wpc = "done"
    /\ tool.name = "debug_accounts"
    /\ tool.response = NoBusinessSelected
    /\ requests = <<>>
    /\ business_id = Some("")

\* C26: no result is the Stage 3 keyword rule's "Fallback match": whenever
\* a keyword of the category occurs in a filtered account's name, Stage 0,
\* Stage 1 or Stage 2's accept (at 0.85 or more) has returned before it
C26_KeywordRuleUnreachable ==
    Returned =>
        /\ ~StartsWith(result.explanation, "Fallback match: ")
        /\ (user_category # "" /\ KeywordHit) =>
              \/ EarlyStageFires
              \/ FromStage2Accept /\ ScoreLe(Rat(85, 100), result.score)

\* C26 witness: a category with keywords, one of them in a filtered
\* account's name, Stages 0 and 1 silent: Stage 2 answered with a synonym
\* match, so the keyword rule was never tried
C26_Witness ==
    /\ Returned /\ user_category # "" /\ ~EarlyStageFires
    /\ KeywordHit
    /\ StartsWith(result.explanation, "Synonym match: ")
    /\ result.accountName = Some("Meals & Entertainment")

\* C27: no result is Stage 1's "Prefix match": a filtered account whose
\* lower-cased name starts with the label also contains it, so when
\* Stage 1 reaches such an account (Stage 0 silent, no earlier account hit)
\* it returns it by sub-rule a at 1.0
C27_PrefixRuleNeverDecides ==
    (Returned /\ user_category # "") =>
        /\ ~StartsWith(result.explanation, "Prefix match: ")
        /\ \A i \in 1..Len(Filtered) :
              Stage1Prefix(Strip(Lower(user_category)), Filtered[i]) =>
                  /\ Stage1Substring(Strip(Lower(user_category)), Filtered[i])
                  /\ (/\ ~(account_type = "Income" /\ RentalTokenHit)
                      /\ \A j \in 1..(i - 1) : ~Stage1Hit(Filtered[j])) =>
                        /\ result.accountId = Some(Filtered[i].id)
                        /\ ScoreEq(result.score, Rat(1, 1))
                        /\ StartsWith(result.explanation, "Exact substring match: ")

\* C27 witness: "food" over a chart whose first filtered account is
\* "Food & Drink": the name starts with the label and the answer is the
\* exact substring match at 1.0
C27_Witness ==
    /\ Returned /\ user_category = "food"
    /\ Filtered # <<>>
    /\ Filtered[1].name = "Food & Drink"
    /\ Stage1Prefix("food", Filtered[1])
    /\ result.accountId = Some(Filtered[1].id)
    /\ ScoreEq(result.score, Rat(1, 1))
    /\ StartsWith(result.explanation, "Exact substring match: ")

\* the current invocation is one of the two transaction workflows
InWorkflow == tool.name \in { "create_expense_from_receipt", "create_income_from_payment" }

\* C28 as stated: all backend requests of one create_expense_from_receipt
\* or create_income_from_payment invocation carry the same business id,
\* whatever set_business calls interleave with it
C28_OneBusinessPerInvocation ==
    InWorkflow =>
        \A i \in 1..Len(requests) : \A j \in 1..Len(requests) :
            requests[i].businessId = requests[j].businessId

\* C29: a result's score is 0.0 exactly when its accountId is None, and a
\* result with an account has a score of at least 0.1
C29_ZeroScoreIffNoAccount ==
    Returned =>
        /\ ScoreEq(result.score, Rat(0, 1)) <=> result.accountId = None
        /\ result.accountId # None => ScoreLe(Rat(1, 10), result.score)

\* C29 witness: the lowest-scored result with an account: the final
\* fallback's first account at exactly 0.1
C29_Witness ==
    /\ Returned
    /\ Filtered # <<>>
    /\ result.accountId = Some(Filtered[1].id)
    /\ ScoreEq(result.score, Rat(1, 10))
    /\ ~ScoreEq(result.score, Rat(0, 1))

\* the synonym condition of the current call holds for account a: the
\* label is the key or a listed synonym of an entry whose key or one of
\* whose synonyms occurs in a's name
SynonymConditionHolds(a) ==
    \E k \in 1..Len(SynonymsOfCall) :
        /\ Related(Strip(Lower(user_category)), SynonymsOfCall[k])
        /\ \/ Contains(SynonymsOfCall[k].key, Lower(a.name))
           \/ \E j \in 1..Len(SynonymsOfCall[k].synonyms) :
                 Contains(SynonymsOfCall[k].synonyms[j], Lower(a.name))

\* only the indirect synonym test (0.85) and the third test (0.88) hit on
\* account a: the related entry's key is not in a's name, a synonym is
IndirectOnly(a) ==
    \E k \in 1..Len(SynonymsOfCall) :
        /\ Related(Strip(Lower(user_category)), SynonymsOfCall[k])
        /\ ~Contains(SynonymsOfCall[k].key, Lower(a.name))
        /\ \E j \in 1..Len(SynonymsOfCall[k].synonyms) :
              Contains(SynonymsOfCall[k].synonyms[j], Lower(a.name))

\* C30: after Stage 2's synonym loop over an account for which the synonym
\* condition holds, the running best is at least 0.88 whatever it was
\* before, and no result with a "Synonym match" explanation has score 0.85
C30_IndirectSynonymSuperseded ==
    (Returned /\ user_category # "") =>
        /\ \A i \in 1..Len(Filtered) :
              SynonymConditionHolds(Filtered[i]) =>
                  ScoreLe(Rat(88, 100),
                          SynonymScan(NoBest, user_category, Strip(Lower(user_category)),
                                      Filtered[i], SynonymsOfCall).score)
        /\ StartsWith(result.explanation, "Synonym match: ") =>
              /\ ~ScoreEq(result.score, Rat(85, 100))
              /\ ScoreLe(Rat(88, 100), result.score)

\* C30 witness: "food" against "Meals & Entertainment": the key is not in
\* the name, the synonym "meals" is, and the result is the synonym match
\* of the third test at 0.88
C30_Witness ==
    /\ Returned /\ user_category = "food"
    /\ \E i \in 1..Len(Filtered) :
          /\ IndirectOnly(Filtered[i])
          /\ result.accountId = Some(Filtered[i].id)
    /\ StartsWith(result.explanation, "Synonym match: 'food' relates to 'meals' in '")
    /\ ScoreEq(result.score, Rat(88, 100))
====
